---------------------------- MODULE Spec2Model ----------------------------
(***************************************************************************)
(* Model of the Book Card Creator plugin (src/src/main.ts, latest          *)
(* iteration, lines 443-1390): the Create invocation of BookUrlModal and   *)
(* TechBlogUrlModal, fetchBookInfo / fetchBlogInfo with their proxy loop   *)
(* and regular-expression extraction, generateSummaryWithAnthropic and     *)
(* createNoteFromTemplate.                                                 *)
(*                                                                         *)
(* Strings.  A JavaScript string is a sequence of atoms, each atom a       *)
(* non-empty TLA+ string standing for the characters it spells; the        *)
(* string is the concatenation of its atoms and is empty iff the sequence  *)
(* is.  The characters a pattern of the source tells apart ('<', '>',      *)
(* '"', white space, '$', '#', '[', ']', '|', the characters illegal in    *)
(* file names) are atoms of their own or are listed with the atoms that    *)
(* spell them, so that a pattern of the source matches a sequence of atoms *)
(* exactly where it matches the characters they spell.                     *)
(***************************************************************************)
EXTENDS Integers, Sequences, FiniteSets, TLC

Max(a, b) == IF a >= b THEN a ELSE b

(***************************************************************************)
(* Regular expressions (the subset the source uses).  An expression is a   *)
(* sequence of elements: one character of a class, a greedy or lazy        *)
(* repetition of a class, and the two ends of the (single) capture group.  *)
(* Matching follows the backtracking order of ECMAScript: leftmost start,  *)
(* greedy repetitions longest first, lazy repetitions shortest first.      *)
(***************************************************************************)
Cls(S) == [t |-> "one", neg |-> FALSE, set |-> S]

Not(S) == [t |-> "one", neg |-> TRUE, set |-> S]

AnyChar == Not({})

Star(e) == [e EXCEPT !.t = "star"]

Plus(e) == [e EXCEPT !.t = "plus"]

LazyStar(e) == [e EXCEPT !.t = "lazy"]

GroupOpen == [t |-> "open", neg |-> FALSE, set |-> {}]

GroupClose == [t |-> "close", neg |-> FALSE, set |-> {}]

Lit(str) == [i \in 1..Len(str) |-> Cls({str[i]})]

InClass(e, a) == IF e.neg THEN a \notin e.set ELSE a \in e.set

\* Length of the longest run of atoms of class e in s from pos on.
RunLength(e, s, pos) ==
    CHOOSE n \in 0..Max(Len(s) - pos + 1, 0) :
        /\ \A k \in pos..(pos + n - 1) : InClass(e, s[k])
        /\ (pos + n > Len(s) \/ ~InClass(e, s[pos + n]))

NoMatch == [ok |-> FALSE, start |-> 0, end |-> 0, cs |-> 0, ce |-> 0]

\* Of the ways a repetition can go on (n atoms taken, m the match of the
\* rest), the one backtracking finds first: the longest when greedy, the
\* shortest when lazy.
PickMatch(lazy, ways) ==
    IF ways = {} THEN NoMatch
    ELSE (CHOOSE w \in ways :
              \A v \in ways : IF lazy THEN w.n <= v.n ELSE w.n >= v.n).m

RECURSIVE MatchAt(_, _, _, _, _, _)
\* Match re[k..] against s at pos; end is the position after the match.
MatchAt(re, k, s, pos, cs, ce) ==
    IF k > Len(re)
    THEN [ok |-> TRUE, start |-> 0, end |-> pos, cs |-> cs, ce |-> ce]
    ELSE CASE re[k].t = "one" ->
                  IF pos <= Len(s) /\ InClass(re[k], s[pos])
                  THEN MatchAt(re, k + 1, s, pos + 1, cs, ce)
                  ELSE NoMatch
           [] re[k].t = "open" -> MatchAt(re, k + 1, s, pos, pos, ce)
           [] re[k].t = "close" -> MatchAt(re, k + 1, s, pos, cs, pos)
           [] OTHER ->
                  PickMatch(re[k].t = "lazy",
                      {w \in {[n |-> n, m |-> MatchAt(re, k + 1, s, pos + n, cs, ce)] :
                                  n \in (IF re[k].t = "plus" THEN 1 ELSE 0)
                                            ..RunLength(re[k], s, pos)} :
                           w.m.ok})

\* The least element of a non-empty set of numbers.
Least(S) == CHOOSE i \in S : \A j \in S : i <= j

\* The match at the leftmost of the starts at which re matches.
ExecAt(re, s, starts) ==
    IF starts = {} THEN NoMatch
    ELSE [MatchAt(re, 1, s, Least(starts), 0, 0) EXCEPT !.start = Least(starts)]

\* RegExp.prototype.exec with lastIndex = from - 1: the leftmost match.
ExecFrom(re, s, from) ==
    ExecAt(re, s, {i \in from..(Len(s) + 1) : MatchAt(re, 1, s, i, 0, 0).ok})

\* String.prototype.match(re) without the g flag: the match object or null.
StrMatch(s, re) == ExecFrom(re, s, 1)

\* match[0] and match[1] of a match object m on s.
Whole(s, m) == SubSeq(s, m.start, m.end - 1)

Group1(s, m) == SubSeq(s, m.cs, m.ce - 1)

RECURSIVE MatchAllFrom(_, _, _)
RECURSIVE MatchAllNext(_, _, _)
\* String.prototype.match(re) with the g flag: the matched substrings.
MatchAllFrom(s, re, from) == MatchAllNext(s, re, ExecFrom(re, s, from))

MatchAllNext(s, re, m) ==
    IF ~m.ok THEN <<>>
    ELSE <<Whole(s, m)>> \o MatchAllFrom(s, re, Max(m.end, m.start + 1))

StrMatchAll(s, re) == MatchAllFrom(s, re, 1)

\* String.prototype.indexOf, counted from 1; 0 when sub does not occur.
IndexAmong(at) == IF at = {} THEN 0 ELSE Least(at)

IndexOf(s, sub) ==
    IndexAmong({i \in 1..(Len(s) - Len(sub) + 1) :
                    SubSeq(s, i, i + Len(sub) - 1) = sub})

\* String.prototype.includes
Includes(s, sub) == IndexOf(s, sub) > 0

WhiteSpace == {" ", "\n"}

RECURSIVE TrimStart(_)
TrimStart(s) ==
    IF s # <<>> /\ Head(s) \in WhiteSpace THEN TrimStart(Tail(s)) ELSE s

RECURSIVE TrimEnd(_)
TrimEnd(s) ==
    IF s # <<>> /\ s[Len(s)] \in WhiteSpace
    THEN TrimEnd(SubSeq(s, 1, Len(s) - 1)) ELSE s

\* String.prototype.trim
Trim(s) == TrimEnd(TrimStart(s))

(***************************************************************************)
(* String.prototype.replace(re with g flag, replacement string).  In the   *)
(* replacement the patterns $$, $&, $(backtick) and $(apostrophe) are      *)
(* expanded (the patterns of the source have no numbered group to name, so *)
(* $1.. stay literal); inserted text is not scanned again by the same      *)
(* call.  The two quote characters are spelled out as atoms.               *)
(***************************************************************************)
BackTick == "(backtick)"

Apostrophe == "(apostrophe)"

RECURSIVE Expand(_, _, _)
Expand(repl, s, m) ==
    IF repl = <<>> THEN <<>>
    ELSE IF Head(repl) = "$" /\ Len(repl) >= 2
    THEN CASE repl[2] = "$" -> <<"$">> \o Expand(SubSeq(repl, 3, Len(repl)), s, m)
           [] repl[2] = "&" -> Whole(s, m) \o Expand(SubSeq(repl, 3, Len(repl)), s, m)
           [] repl[2] = BackTick ->
                  SubSeq(s, 1, m.start - 1) \o Expand(SubSeq(repl, 3, Len(repl)), s, m)
           [] repl[2] = Apostrophe ->
                  SubSeq(s, m.end, Len(s)) \o Expand(SubSeq(repl, 3, Len(repl)), s, m)
           [] OTHER -> <<"$">> \o Expand(Tail(repl), s, m)
    ELSE <<Head(repl)>> \o Expand(Tail(repl), s, m)

RECURSIVE ReplaceFrom(_, _, _, _)
RECURSIVE ReplaceNext(_, _, _, _, _)
ReplaceFrom(s, re, repl, from) == ReplaceNext(s, re, repl, from, ExecFrom(re, s, from))

ReplaceNext(s, re, repl, from, m) ==
    IF ~m.ok THEN SubSeq(s, from, Len(s))
    ELSE SubSeq(s, from, m.start - 1) \o Expand(repl, s, m)
             \o ReplaceFrom(s, re, repl, m.end)

StrReplaceAll(s, re, repl) == ReplaceFrom(s, re, repl, 1)


(***************************************************************************)
(* The patterns of the source.  Markup is spelled with the atoms "<", ">", *)
(* the double quote, one atom per tag name ("span", "/span", ...), one per *)
(* attribute opening or whole attribute (class=", id="productTitle"), and  *)
(* " " between them.  A class of the form "atoms that begin with a" or     *)
(* "atoms that hold a double quote" lists the atoms of the vocabulary that *)
(* do.                                                                     *)
(***************************************************************************)
Gt == Cls({">"})

NotGt == Not({">"})

NotLt == Not({"<"})

\* Atoms that spell a double quote: [^"] excludes them.
QuoteAtoms ==
    {"\"", "class=\"", "href=\"", "id=\"", "id=\"productTitle\"",
     "id=\"bylineInfo\"", "id=\"bookDescription_feature_div\"",
     "id=\"productDescription\"", "id=\"wayfinding-breadcrumbs_feature_div\""}

NotQuote == Not(QuoteAtoms)

\* Atoms whose first character is a: <a[^>]*> begins with "<" and one of them.
AAtoms ==
    {"a", "article", "a-link-normal a-color-tertiary", "a-link-normal",
     "a-expander-content", "a-expander-partial", "a-size-large", "author",
     "amazon", "amazon-link"}

Capture(e) == <<GroupOpen, e, GroupClose>>

\* main.ts:798  /<span id="productTitle"[^>]*>([^<]+)<\/span>/
productTitleRe ==
    Lit(<<"<", "span", " ", "id=\"productTitle\"">>) \o <<Star(NotGt), Gt>>
        \o Capture(Plus(NotLt)) \o Lit(<<"<", "/span", ">">>)

\* main.ts:799  /<a class="[^"]*" href="[^"]*\/e\/[^"]*">([^<]+)<\/a>/
authorLinkRe ==
    Lit(<<"<", "a", " ", "class=\"">>) \o <<Star(NotQuote)>>
        \o Lit(<<"\"", " ", "href=\"">>) \o <<Star(NotQuote)>> \o Lit(<<"/e/">>)
        \o <<Star(NotQuote)>> \o Lit(<<"\"", ">">>)
        \o Capture(Plus(NotLt)) \o Lit(<<"<", "/a", ">">>)

\* main.ts:800  /id="bylineInfo"[^>]*>[\s\S]*?<span[^>]*>([^<]+)<\/span>/
bylineRe ==
    Lit(<<"id=\"bylineInfo\"">>) \o <<Star(NotGt), Gt, LazyStar(AnyChar)>>
        \o Lit(<<"<", "span">>) \o <<Star(NotGt), Gt>>
        \o Capture(Plus(NotLt)) \o Lit(<<"<", "/span", ">">>)

\* main.ts:803  /<div id="bookDescription_feature_div"[^>]*>([\s\S]*?)<\/div>/
bookDescriptionRe ==
    Lit(<<"<", "div", " ", "id=\"bookDescription_feature_div\"">>)
        \o <<Star(NotGt), Gt>> \o Capture(LazyStar(AnyChar))
        \o Lit(<<"<", "/div", ">">>)

\* main.ts:804  /<div id="productDescription"[^>]*>([\s\S]*?)<\/div>/
productDescriptionRe ==
    Lit(<<"<", "div", " ", "id=\"productDescription\"">>)
        \o <<Star(NotGt), Gt>> \o Capture(LazyStar(AnyChar))
        \o Lit(<<"<", "/div", ">">>)

\* main.ts:805
\* /<div class="a-expander-content[^"]*" id="[^"]*Description[^"]*"[^>]*>([\s\S]*?)<\/div>/
expanderRe ==
    Lit(<<"<", "div", " ", "class=\"", "a-expander-content">>)
        \o <<Star(NotQuote)>> \o Lit(<<"\"", " ", "id=\"">>)
        \o <<Star(NotQuote)>> \o Lit(<<"Description">>) \o <<Star(NotQuote)>>
        \o Lit(<<"\"">>) \o <<Star(NotGt), Gt>> \o Capture(LazyStar(AnyChar))
        \o Lit(<<"<", "/div", ">">>)

\* main.ts:806  /<noscript><div>([\s\S]*?)<\/div><\/noscript>/
noscriptRe ==
    Lit(<<"<", "noscript", ">", "<", "div", ">">>) \o Capture(LazyStar(AnyChar))
        \o Lit(<<"<", "/div", ">", "<", "/noscript", ">">>)

\* main.ts:812  /id="wayfinding-breadcrumbs_feature_div"[^>]*>([\s\S]*?)<\/div>/
breadcrumbsRe ==
    Lit(<<"id=\"wayfinding-breadcrumbs_feature_div\"">>) \o <<Star(NotGt), Gt>>
        \o Capture(LazyStar(AnyChar)) \o Lit(<<"<", "/div", ">">>)

\* main.ts:816, 822  /<a[^>]*>([^<]+)<\/a>/
anchorRe ==
    <<Cls({"<"}), Cls(AAtoms), Star(NotGt), Gt>> \o Capture(Plus(NotLt))
        \o Lit(<<"<", "/a", ">">>)

\* main.ts:831  /<a class="a-link-normal a-color-tertiary"[^>]*>([^<]+)<\/a>/
tertiaryRe ==
    Lit(<<"<", "a", " ", "class=\"", "a-link-normal a-color-tertiary", "\"">>)
        \o <<Star(NotGt), Gt>> \o Capture(Plus(NotLt)) \o Lit(<<"<", "/a", ">">>)

\* main.ts:641  /<title[^>]*>([^<]+)<\/title>/
pageTitleRe ==
    Lit(<<"<", "title">>) \o <<Star(NotGt), Gt>> \o Capture(Plus(NotLt))
        \o Lit(<<"<", "/title", ">">>)

\* main.ts:642  /<h1[^>]*>([^<]+)<\/h1>/
headingRe ==
    Lit(<<"<", "h1">>) \o <<Star(NotGt), Gt>> \o Capture(Plus(NotLt))
        \o Lit(<<"<", "/h1", ">">>)

\* main.ts:675  /<article[^>]*>([\s\S]*?)<\/article>/
articleRe ==
    Lit(<<"<", "article">>) \o <<Star(NotGt), Gt>> \o Capture(LazyStar(AnyChar))
        \o Lit(<<"<", "/article", ">">>)

\* main.ts:676  /<main[^>]*>([\s\S]*?)<\/main>/
mainRe ==
    Lit(<<"<", "main">>) \o <<Star(NotGt), Gt>> \o Capture(LazyStar(AnyChar))
        \o Lit(<<"<", "/main", ">">>)

\* main.ts:677-679  /<div[^>]*?class="[^"]*?WORD[^"]*?"[^>]*>([\s\S]*?)<\/div>/i
\* for WORD = content, entry, post; words lists the atoms that spell WORD.
divClassRe(words) ==
    Lit(<<"<", "div">>) \o <<LazyStar(NotGt)>> \o Lit(<<"class=\"">>)
        \o <<LazyStar(NotQuote), Cls(words), LazyStar(NotQuote)>>
        \o Lit(<<"\"">>) \o <<Star(NotGt), Gt>> \o Capture(LazyStar(AnyChar))
        \o Lit(<<"<", "/div", ">">>)

\* main.ts:689  /<body[^>]*>([\s\S]*?)<\/body>/
bodyRe ==
    Lit(<<"<", "body">>) \o <<Star(NotGt), Gt>> \o Capture(LazyStar(AnyChar))
        \o Lit(<<"<", "/body", ">">>)

\* main.ts:855-858, the four patterns of cleanHtml
brRe == <<Cls({"<"}), Cls({"br", "br/", "BR"}), Star(NotGt), Gt>>

pCloseRe == <<Cls({"<"}), Cls({"/p", "/P"}), Gt>>

tagRe == <<Cls({"<"}), Star(NotGt), Gt>>

spacesRe == <<Cls(WhiteSpace), Plus(Cls(WhiteSpace))>>

\* main.ts:852-860: the four replacements in order, then trim.
cleanHtml(html) ==
    Trim(StrReplaceAll(
           StrReplaceAll(
             StrReplaceAll(
               StrReplaceAll(html, brRe, <<"\n">>),
               pCloseRe, <<"\n", "\n">>),
             tagRe, <<" ">>),
           spacesRe, <<" ">>))

\* a || b on match objects: the first that is not null.
OrElse(m1, m2) == IF m1.ok THEN m1 ELSE m2

\* Variant: group 1 of the first match, empty or not.
FirstCapturedOfFirstMatch(html, res) ==
    IF {i \in 1..Len(res) : StrMatch(html, res[i]).ok} = {} THEN <<>>
    ELSE Group1(html, StrMatch(html,
             res[Least({i \in 1..Len(res) : StrMatch(html, res[i]).ok})]))

RECURSIVE FirstCaptured(_, _)
\* main.ts:682-686: group 1 of the first match that has a non-empty group 1,
\* else <<>>.
FirstCaptured(html, res) ==
    IF res = <<>> THEN <<>>
    ELSE IF StrMatch(html, Head(res)).ok
            /\ Group1(html, StrMatch(html, Head(res))) # <<>>
    THEN Group1(html, StrMatch(html, Head(res)))
    ELSE FirstCaptured(html, Tail(res))

\* main.ts:674-680
contentMatches ==
    <<articleRe, mainRe, divClassRe({"content", "a-expander-content"}),
      divClassRe({"entry", "entry-title"}), divClassRe({"post"})>>

\* m ? m[1] : fallback
GroupOr(s, m, fallback) == IF m.ok THEN Group1(s, m) ELSE fallback

\* Variant: no fallback, the text is empty when nothing matched.
TrimmedGroupOrEmpty(s, m, fallback) == IF m.ok THEN Trim(Group1(s, m)) ELSE <<>>

\* m ? m[1].trim() : fallback
TrimmedGroupOr(s, m, fallback) == IF m.ok THEN Trim(Group1(s, m)) ELSE fallback

\* main.ts:688-690
bodyOrAll(html) == GroupOr(html, StrMatch(html, bodyRe), html)

\* main.ts:682-690 on the content found in a container (<<>> when none)
containerOrBody(html, found) == IF found # <<>> THEN found ELSE bodyOrAll(html)

\* main.ts:672-691
extractMainContent(html) == containerOrBody(html, FirstCaptured(html, contentMatches))

(***************************************************************************)
(* Strings of the program.                                                 *)
(***************************************************************************)
UnknownTitle == <<"Unknown Title">>

UnknownAuthor == <<"Unknown Author">>

NoSummary == <<"No summary available.">>

Fiction == <<"Fiction">>

KindleStore == <<"Kindle", " ", "Store">>

\* main.ts:822-825: the text of the anchor chosen, or the default genre.
anchorText(target) == TrimmedGroupOr(target, StrMatch(target, anchorRe), Fiction)

\* Variant: the last anchor is taken.
crumbCategoryLast(categoryLinks) ==
    IF Len(categoryLinks) > 0
    THEN anchorText(categoryLinks[Len(categoryLinks)])
    ELSE Fiction

\* main.ts:818-826: the anchor at Math.max(0, length - 2); categoryLinks is
\* indexed from 0 in the source.
crumbCategory(categoryLinks) ==
    IF Len(categoryLinks) > 0
    THEN anchorText(categoryLinks[Max(0, Len(categoryLinks) - 2) + 1])
    ELSE Fiction

\* main.ts:809-827: the genre after the breadcrumb block.
breadcrumbGenre(htmlContent, breadcrumbsMatch) ==
    IF breadcrumbsMatch.ok
    THEN crumbCategory(StrMatchAll(Group1(htmlContent, breadcrumbsMatch), anchorRe))
    ELSE Fiction

\* Variant: the search runs whatever the breadcrumbs gave.
tertiaryGenreAlways(htmlContent, genre, genreMatch) ==
    IF genreMatch.ok /\ Trim(Group1(htmlContent, genreMatch)) # KindleStore
    THEN Trim(Group1(htmlContent, genreMatch))
    ELSE genre

\* main.ts:830-835: the tertiary-category search.
tertiaryGenre(htmlContent, genre, genreMatch) ==
    IF (genre = Fiction \/ genre = KindleStore) /\ genreMatch.ok
       /\ Trim(Group1(htmlContent, genreMatch)) # KindleStore
    THEN Trim(Group1(htmlContent, genreMatch))
    ELSE genre

\* main.ts:808-835: the genre of fetchBookInfo.
bookGenre(htmlContent) ==
    tertiaryGenre(htmlContent,
                  breadcrumbGenre(htmlContent, StrMatch(htmlContent, breadcrumbsRe)),
                  StrMatch(htmlContent, tertiaryRe))

\* main.ts:798, 839
bookTitle(htmlContent) ==
    TrimmedGroupOr(htmlContent, StrMatch(htmlContent, productTitleRe), UnknownTitle)

\* main.ts:799-800, 840
bookAuthor(htmlContent) ==
    TrimmedGroupOr(htmlContent,
                   OrElse(StrMatch(htmlContent, authorLinkRe),
                          StrMatch(htmlContent, bylineRe)),
                   UnknownAuthor)

\* main.ts:803-806: summaryMatch
summaryMatch(htmlContent) ==
    OrElse(StrMatch(htmlContent, bookDescriptionRe),
      OrElse(StrMatch(htmlContent, productDescriptionRe),
        OrElse(StrMatch(htmlContent, expanderRe),
               StrMatch(htmlContent, noscriptRe))))

\* summaryMatch ? this.cleanHtml(summaryMatch[1]).trim() : fallback
cleanedGroupOr(s, m, fallback) ==
    IF m.ok THEN Trim(cleanHtml(Group1(s, m))) ELSE fallback

\* main.ts:803-806, 842
bookSummary(htmlContent) ==
    cleanedGroupOr(htmlContent, summaryMatch(htmlContent), NoSummary)

\* main.ts:797-844: the record fetchBookInfo builds from the page.
extractBook(htmlContent, amazonUrl) ==
    [title |-> bookTitle(htmlContent),
     author |-> bookAuthor(htmlContent),
     genre |-> bookGenre(htmlContent),
     summary |-> bookSummary(htmlContent),
     amazonUrl |-> amazonUrl]

\* main.ts:641-642, 661: the title of fetchBlogInfo.
blogTitle(htmlContent) ==
    TrimmedGroupOr(htmlContent,
                   OrElse(StrMatch(htmlContent, pageTitleRe),
                          StrMatch(htmlContent, headingRe)),
                   UnknownTitle)

(***************************************************************************)
(* createNoteFromTemplate: rendering, link and file name.                  *)
(***************************************************************************)
\* The placeholder {{namespace:field}} as the pattern /{{namespace:field}}/g.
Token(namespace, field) == <<"{{", namespace, ":", field, "}}">>

\* main.ts:865  /[#\[\]|]/g
linkCharsRe == <<Cls({"#", "[", "]", "|"})>>

\* main.ts:863-868
createMarkdownLink(title, url) ==
    <<"[">> \o Trim(StrReplaceAll(title, linkCharsRe, <<>>)) \o <<"]", "(">>
        \o url \o <<")">>

\* newContent.replace(/{{namespace:field}}/g, value)
replaceToken(content, namespace, field, value) ==
    StrReplaceAll(content, Lit(Token(namespace, field)), value)

\* main.ts:549-556: the replacements for a BookInfo, in the order of the source.
renderBook(templateContent, book) ==
    replaceToken(
      replaceToken(
        replaceToken(
          replaceToken(
            replaceToken(templateContent, "book-creator", "title", book.title),
            "book-creator", "author", book.author),
          "book-creator", "genre", book.genre),
        "book-creator", "summary", book.summary),
      "book-creator", "amazon-link", createMarkdownLink(book.title, book.amazonUrl))

\* main.ts:558-563: the replacements for a BlogInfo, in the order of the source.
renderBlog(templateContent, blog) ==
    replaceToken(
      replaceToken(
        replaceToken(templateContent, "blog-creator", "title", blog.title),
        "blog-creator", "summary", blog.summary),
      "blog-creator", "blog-link", createMarkdownLink(blog.title, blog.blogUrl))

\* Variant: the title token of the other kind is substituted as well.
renderTemplateBothKinds(templateContent, bookInfo) ==
    IF "amazonUrl" \in DOMAIN bookInfo
    THEN replaceToken(renderBook(templateContent, bookInfo),
                      "blog-creator", "title", bookInfo.title)
    ELSE IF "blogUrl" \in DOMAIN bookInfo
    THEN replaceToken(renderBlog(templateContent, bookInfo),
                      "book-creator", "title", bookInfo.title)
    ELSE templateContent

\* main.ts:545-564
renderTemplate(templateContent, bookInfo) ==
    IF "amazonUrl" \in DOMAIN bookInfo THEN renderBook(templateContent, bookInfo)
    ELSE IF "blogUrl" \in DOMAIN bookInfo THEN renderBlog(templateContent, bookInfo)
    ELSE templateContent

\* Variant: the question mark is missing from the class.
illegalReNoQuestionMark == <<Cls({"\\", "/", ":", "*", "\"", "<", ">", "|"})>>

\* main.ts:567  /[\\/:*?"<>|]/g
illegalRe == <<Cls({"\\", "/", ":", "*", "?", "\"", "<", ">", "|"})>>

\* main.ts:567
noteFileName(bookInfo) ==
    (IF "title" \in DOMAIN bookInfo
     THEN StrReplaceAll(bookInfo.title, illegalRe, <<>>)
     ELSE <<"blog">>) \o <<".md">>

\* main.ts:568
noteFilePath(outputFolderPath, fileName) == outputFolderPath \o <<"/">> \o fileName


(***************************************************************************)
(* The network.                                                            *)
(***************************************************************************)
\* encodeURIComponent, on the characters the model's URLs are spelled with.
encodeURIComponent(str) ==
    [i \in 1..Len(str) |->
        CASE str[i] = ":" -> "%3A"
          [] str[i] = "/" -> "%2F"
          [] str[i] = "?" -> "%3F"
          [] OTHER -> str[i]]

\* Variant: corsproxy.io is listed before allorigins.
proxyUrlsSwapped(targetUrl) ==
    << <<"https://corsproxy.io/?">> \o encodeURIComponent(targetUrl),
       <<"https://api.allorigins.win/get?url=">> \o encodeURIComponent(targetUrl),
       <<"https://cors-anywhere.herokuapp.com/">> \o targetUrl >>

\* main.ts:593-597, 750-754
proxyUrls(targetUrl) ==
    << <<"https://api.allorigins.win/get?url=">> \o encodeURIComponent(targetUrl),
       <<"https://corsproxy.io/?">> \o encodeURIComponent(targetUrl),
       <<"https://cors-anywhere.herokuapp.com/">> \o targetUrl >>

NumProxies == Len(proxyUrls(<<>>))

AnthropicUrl == <<"https://api.anthropic.com/v1/messages">>

\* The decimal spelling of a status code, as a template literal inserts it.
StatusText(status) ==
    CASE status = 200 -> <<"200">>
      [] status = 503 -> <<"503">>

\* response.ok
IsOk(status) == status >= 200 /\ status <= 299

JsonType == <<"application/json">>

(***************************************************************************)
(* An answer to fetch(proxyUrl).  rejected: fetch itself throws err.       *)
(* Otherwise a response with status and content-type header (<<>> when the *)
(* header is missing); bodyFails: response.json() / response.text() throws *)
(* err; hasContents: the parsed JSON has the field contents; body: the     *)
(* value of contents when hasContents, else the text of the response body. *)
(***************************************************************************)
Answer(rejected, status, contentType, bodyFails, hasContents, body, err) ==
    [rejected |-> rejected, status |-> status, contentType |-> contentType,
     bodyFails |-> bodyFails, hasContents |-> hasContents, body |-> body,
     err |-> err]

NetworkError == <<"Failed to fetch">>

JsonError == <<"Unexpected token < in JSON at position 0">>

FailingAnswers ==
    {Answer(TRUE, 200, <<>>, FALSE, FALSE, <<>>, NetworkError),
     Answer(FALSE, 503, JsonType, FALSE, TRUE, <<"busy">>, <<>>),
     Answer(FALSE, 200, JsonType, TRUE, FALSE, <<>>, JsonError)}

EmptyAnswers ==
    {Answer(FALSE, 200, JsonType, FALSE, FALSE, <<"{\"status\":{}}">>, <<>>),
     Answer(FALSE, 200, JsonType, FALSE, TRUE, <<>>, <<>>),
     Answer(FALSE, 200, <<>>, FALSE, FALSE, <<>>, <<>>)}

PageAnswers(pages) ==
    {Answer(FALSE, 200, ct, FALSE, ct = JsonType, page, <<>>) :
        ct \in {JsonType, <<"text/html">>}, page \in pages}

\* Variant: a JSON body without contents is taken as raw text.
proxyStepRawJson(answer, htmlContent, proxyError) ==
    IF answer.rejected
    THEN [htmlContent |-> htmlContent,
          proxyError |-> <<"Proxy error: ">> \o answer.err]
    ELSE IF ~IsOk(answer.status)
    THEN [htmlContent |-> htmlContent,
          proxyError |-> <<"Failed to fetch data: ">> \o StatusText(answer.status)]
    ELSE IF answer.bodyFails
    THEN [htmlContent |-> htmlContent,
          proxyError |-> <<"Proxy error: ">> \o answer.err]
    ELSE [htmlContent |-> answer.body, proxyError |-> proxyError]

(***************************************************************************)
(* main.ts:604-633, 761-790: one pass of the loop body on an answer.       *)
(* Gives the new values of the locals htmlContent and proxyError; the loop *)
(* goes on to the next proxy iff the new htmlContent is empty.             *)
(***************************************************************************)
proxyStep(answer, htmlContent, proxyError) ==
    IF answer.rejected
    THEN [htmlContent |-> htmlContent,
          proxyError |-> <<"Proxy error: ">> \o answer.err]
    ELSE IF ~IsOk(answer.status)
    THEN [htmlContent |-> htmlContent,
          proxyError |-> <<"Failed to fetch data: ">> \o StatusText(answer.status)]
    ELSE IF answer.bodyFails
    THEN [htmlContent |-> htmlContent,
          proxyError |-> <<"Proxy error: ">> \o answer.err]
    ELSE IF answer.contentType # <<>> /\ Includes(answer.contentType, JsonType)
    THEN [htmlContent |-> IF answer.hasContents /\ answer.body # <<>>
                          THEN answer.body ELSE htmlContent,
          proxyError |-> proxyError]
    ELSE [htmlContent |-> answer.body, proxyError |-> proxyError]


(***************************************************************************)
(* An answer of the summarization endpoint.  rejected: fetch throws;       *)
(* bodyFails: response.json() throws; hasText: data.content[0] exists, and *)
(* text is its text field (<<>> when the field is missing or empty).       *)
(***************************************************************************)
SummaryAnswer(rejected, status, bodyFails, hasText, text) ==
    [rejected |-> rejected, status |-> status, bodyFails |-> bodyFails,
     hasText |-> hasText, text |-> text]

SummaryAnswers ==
    {SummaryAnswer(TRUE, 200, FALSE, FALSE, <<>>),
     SummaryAnswer(FALSE, 401, FALSE, FALSE, <<>>),
     SummaryAnswer(FALSE, 503, TRUE, FALSE, <<>>),
     SummaryAnswer(FALSE, 200, TRUE, FALSE, <<>>),
     SummaryAnswer(FALSE, 200, FALSE, FALSE, <<>>),
     SummaryAnswer(FALSE, 200, FALSE, TRUE, <<>>),
     SummaryAnswer(FALSE, 200, FALSE, TRUE, <<"A", " ", "summary">>)}

SummaryApiFailed == <<"Failed to generate summary with Anthropic API">>

\* main.ts:700
maxContentLength == 10000

Ellipsis == <<".", ".", ".">>

\* Variant: a text of exactly the maximum length is cut too.
truncateContentAtMax(content) ==
    IF Len(content) >= maxContentLength
    THEN SubSeq(content, 1, maxContentLength) \o Ellipsis ELSE content

\* main.ts:701-702: truncatedContent
truncateContent(content) ==
    IF Len(content) > maxContentLength
    THEN SubSeq(content, 1, maxContentLength) \o Ellipsis ELSE content

\* main.ts:704-709: the prompt, the text between two fixed parts.
summaryPrompt(content) ==
    <<"\nHere's the content of a technical blog post. Please summarize it in a concise way, highlighting the main points, key technical concepts, and any important conclusions:\n\n">>
        \o truncateContent(content) \o <<"\n\nSummary:">>

\* main.ts:711-738: what the call gives on an answer: the text returned, or
\* (threw) the message of the error thrown.
generateSummaryWithAnthropic(answer) ==
    IF answer.rejected \/ ~IsOk(answer.status) \/ answer.bodyFails
       \/ ~answer.hasText
    THEN [threw |-> TRUE, text |-> SummaryApiFailed]
    ELSE [threw |-> FALSE,
          text |-> IF answer.text # <<>> THEN answer.text ELSE NoSummary]

\* Variant: a failed call leaves no summary.
blogSummaryDropsFailure(result) ==
    IF result.threw THEN <<>> ELSE result.text

\* main.ts:649-657: the summary of fetchBlogInfo once the call has ended.
blogSummary(result) ==
    IF result.threw THEN <<"Failed to generate summary: ">> \o result.text
    ELSE result.text

(***************************************************************************)
(* State.                                                                  *)
(***************************************************************************)
VARIABLES
    settings,        \* plugin.settings
    files,           \* the vault's files: path -> content
    folders,         \* the vault's folders
    modal,           \* "book" (BookUrlModal) or "blog" (TechBlogUrlModal)
    isOpen,          \* the modal is open
    url,             \* modal.url, the text of the input field
    loadingDisplay,  \* loadingContainer.style.display
    buttonDisplay,   \* buttonContainer.style.display
    pc,              \* where the Create handler is: "idle", "fetch",
                     \* "summary", "create", "done"
    targetUrl,       \* the parameter amazonUrl / blogUrl of the fetch
    proxyIdx,        \* the index (from 1) of the proxy being awaited
    htmlContent,     \* local of fetchBookInfo / fetchBlogInfo
    proxyError,      \* local of fetchBookInfo / fetchBlogInfo
    response,        \* what the last awaited fetch(proxyUrl) gave
    summaryResponse, \* what the awaited fetch of the summary gave
    cleanedContent,  \* local of fetchBlogInfo
    bookInfo,        \* the record the fetch returned
    requests,        \* the network requests of the invocation, in order
    notices,         \* the Notices of the invocation, in order
    leaf,            \* the file opened in the workspace leaf
    vaultCalls,      \* the calls of vault.read and vault.create of the
                     \* invocation, in order
    unresponsive,    \* the hosts that never answer a request
    clicks           \* Create clicks so far

vars == <<settings, files, folders, modal, isOpen, url, loadingDisplay,
          buttonDisplay, pc, targetUrl, proxyIdx, htmlContent, proxyError,
          response, summaryResponse, cleanedContent, bookInfo, requests,
          notices, leaf,
          vaultCalls, unresponsive, clicks>>

vaultVars == <<settings, files, folders, leaf, vaultCalls>>

fetchVars == <<targetUrl, proxyIdx, htmlContent, proxyError, response,
               summaryResponse, cleanedContent, bookInfo, requests>>

NoInfo == [none |-> TRUE]

NoResponse == [none |-> TRUE]

ProxyNames == <<"allorigins", "corsproxy.io", "cors-anywhere">>

\* A request: its URL, its body (<<>> for a GET) and what it got.
Request(to, reqUrl) ==
    [to |-> to, url |-> reqUrl, body |-> <<>>, got |-> "pending"]

\* Error.prototype.toString, as a template literal inserts an Error.
ErrorText(message) == <<"Error: ">> \o message

InvalidUrlMessage(kind) ==
    IF kind = "book" THEN <<"Invalid Amazon URL">> ELSE <<"Invalid Blog URL">>

\* Variant: every URL is accepted.
urlIsValidAlways(kind, u) == TRUE

\* main.ts:743, 587
urlIsValid(kind, u) ==
    IF kind = "book" THEN Includes(u, <<"amazon">>) ELSE Includes(u, <<"http">>)

\* main.ts:637, 794: the error thrown inside the try block.
innerFailure(kind, lastError) ==
    (IF kind = "book" THEN <<"Failed to fetch Amazon data: ">>
     ELSE <<"Failed to fetch blog data: ">>) \o lastError

\* main.ts:665-668, 845-848: the catch around the body rethrows this for
\* whatever error it caught.
outerFailure(kind, caught) ==
    IF kind = "book"
    THEN <<"Failed to fetch book information. Please check the URL and try again.">>
    ELSE <<"Failed to fetch blog information. Please check the URL and try again.">>


(***************************************************************************)
(* Inputs: URLs, pages, templates, settings.                               *)
(***************************************************************************)
AmazonUrl == <<"http", "s", ":", "/", "/", "www.", "amazon", ".co.jp", "/", "dp", "/", "XYZ">>

BlogUrl == <<"http", "s", ":", "/", "/", "myblog.example.com", "/", "post", "/", "1">>

\* What the user types into the field of a modal: a URL its fetch accepts and
\* one it refuses.
Urls(kind) ==
    IF kind = "book" THEN {AmazonUrl, BlogUrl}
    ELSE {BlogUrl, <<"myblog.example.com", "/", "post", "/", "1">>}

TitleEl(text) ==
    <<"<", "span", " ", "id=\"productTitle\"", " ", "class=\"", "a-size-large",
      "\"", ">">> \o text \o <<"<", "/span", ">">>

AuthorLinkEl(text) ==
    <<"<", "a", " ", "class=\"", "a-link-normal", "\"", " ", "href=\"", "/",
      "Frank-Herbert", "/e/", "B000APZOQA", "\"", ">">> \o text
        \o <<"<", "/a", ">">>

BylineEl(text) ==
    <<"<", "div", " ", "id=\"bylineInfo\"", ">", "<", "span", " ", "class=\"",
      "author", "\"", ">">> \o text \o <<"<", "/span", ">", "<", "/div", ">">>

DivIdEl(idAttr, inner) ==
    <<"<", "div", " ", idAttr, ">">> \o inner \o <<"<", "/div", ">">>

ExpanderEl(inner) ==
    <<"<", "div", " ", "class=\"", "a-expander-content", " ", "a-expander-partial",
      "\"", " ", "id=\"", "book", "Description", "_expander", "\"", ">">>
        \o inner \o <<"<", "/div", ">">>

NoscriptEl(inner) ==
    <<"<", "noscript", ">", "<", "div", ">">> \o inner
        \o <<"<", "/div", ">", "<", "/noscript", ">">>

AnchorEl(text) ==
    <<"<", "a", " ", "href=\"", "/", "b", "\"", ">">> \o text \o <<"<", "/a", ">">>

TertiaryEl(text) ==
    <<"<", "a", " ", "class=\"", "a-link-normal a-color-tertiary", "\"", " ",
      "href=\"", "/", "b", "\"", ">">> \o text \o <<"<", "/a", ">">>

CrumbsEl(inner) == DivIdEl("id=\"wayfinding-breadcrumbs_feature_div\"", inner)

ParEl(text) == <<"<", "p", ">">> \o text \o <<"<", "/p", ">">>

PageTitleEl(text) == <<"<", "title", ">">> \o text \o <<"<", "/title", ">">>

HeadingEl(text) == <<"<", "h1", " ", "class=\"", "entry-title", "\"", ">">> \o text \o <<"<", "/h1", ">">>

ArticleEl(inner) == <<"<", "article", ">">> \o inner \o <<"<", "/article", ">">>

BodyEl(inner) == <<"<", "body", ">">> \o inner \o <<"<", "/body", ">">>

DivClassEl(class, inner) ==
    <<"<", "div", " ", "class=\"", class, "\"", ">">> \o inner
        \o <<"<", "/div", ">">>

DuneDescription == ParEl(<<"Arrakis.">>) \o ParEl(<<"A", " ", "desert", "<", "br", ">", "planet.">>)

DunePage ==
    TitleEl(<<" ", "Dune", " ">>) \o AuthorLinkEl(<<"Herbert">>)
        \o DivIdEl("id=\"bookDescription_feature_div\"", DuneDescription)
        \o CrumbsEl(AnchorEl(<<"Books">>) \o AnchorEl(<<"SF">>)
                      \o AnchorEl(KindleStore))

\* Every field's marker present, the text captured first blank; a later
\* description block has text.
BlankPage ==
    TitleEl(<<" ">>) \o BylineEl(<<" ">>)
        \o DivIdEl("id=\"productDescription\"", <<>>)
        \o NoscriptEl(<<"Arrakis.">>)
        \o CrumbsEl(AnchorEl(<<" ">>) \o AnchorEl(KindleStore))

SymbolsPage ==
    TitleEl(<<"A", "#", "B", "[", "C", "]", "D", "|", "E">>)
        \o BylineEl(<<"Herbert">>) \o NoscriptEl(<<"Arrakis.">>)
        \o TertiaryEl(<<"SF">>)

FooPage ==
    TitleEl(<<"Foo", ":", " ", "Bar", "/", "Baz", "?">>)
        \o ExpanderEl(ParEl(<<"Arrakis.">>))
        \o CrumbsEl(AnchorEl(<<"Poetry">>))
        \o TertiaryEl(<<"Drama">>)

PlainPage == <<"Access", " ", "denied">>

\* The breadcrumbs name the store only; the tertiary link names a category.
StorePage ==
    TitleEl(<<"Emma">>) \o CrumbsEl(AnchorEl(KindleStore)) \o TertiaryEl(<<"SF">>)

\* No breadcrumbs; the tertiary link names the store.  The title holds the
\* text of the author token.
KindlePage ==
    TitleEl(<<"On", " ">> \o Token("book-creator", "author"))
        \o TertiaryEl(KindleStore)

BookPages ==
    {PlainPage, DunePage, BlankPage, SymbolsPage, FooPage, StorePage, KindlePage}

PostPage ==
    PageTitleEl(<<"Foo", ":", " ", "Bar", "/", "Baz", "?">>)
        \o BodyEl(ArticleEl(ParEl(<<"Arrakis.">>)
                             \o ParEl(<<"Dune", "<", "br", ">", "Desert">>)))

\* A post titled by its heading only, with dollar signs in the title; its
\* article element is empty and the text is in a later container.
HeadingPage ==
    BodyEl(HeadingEl(<<"Cash", " ", "$", "$", " ", "Flow">>)
               \o ArticleEl(<<>>)
               \o DivClassEl("post", <<"Arrakis.">>))

BlankPostPage == PageTitleEl(<<" ">>) \o BodyEl(<<"<", "br", ">">>)

BlogPages == {PlainPage, PostPage, HeadingPage, BlankPostPage}

Pages(kind) == IF kind = "book" THEN BookPages ELSE BlogPages

TitleByAuthor ==
    Token("book-creator", "title") \o <<" ", "by", " ">>
        \o Token("book-creator", "author")

BookCard ==
    <<"#", " ">> \o Token("book-creator", "title") \o <<"\n">>
        \o Token("book-creator", "genre") \o <<"\n">>
        \o Token("book-creator", "summary") \o <<"\n">>
        \o Token("book-creator", "amazon-link") \o <<"\n">>
        \o Token("blog-creator", "title") \o Token("book-creator", "isbn")
        \o Token("book-creator", "title")

BlogCard ==
    <<"#", " ">> \o Token("blog-creator", "title") \o <<"\n">>
        \o Token("blog-creator", "summary") \o <<"\n">>
        \o Token("blog-creator", "blog-link") \o <<"\n">>
        \o Token("book-creator", "title") \o Token("blog-creator", "author")
        \o Token("blog-creator", "title")

Templates(kind) == IF kind = "book" THEN {BookCard} ELSE {BlogCard}

BookTemplatePath == <<"Templates", "/", "book.md">>

BlogTemplatePath == <<"Templates", "/", "blog.md">>

\* main.ts:454-461
DEFAULT_SETTINGS ==
    [bookTemplatePath |-> <<>>, bookOutputFolder |-> <<>>,
     blogTemplatePath |-> <<>>, blogOutputFolder |-> <<>>,
     anthropicApiKey |-> <<>>, llmModel |-> <<"claude-3-haiku-20240307">>]

\* Settings as loadSettings may find them saved.
SavedSettings ==
    {DEFAULT_SETTINGS,
     [DEFAULT_SETTINGS EXCEPT !.bookTemplatePath = BookTemplatePath,
                              !.bookOutputFolder = <<"Books">>,
                              !.blogTemplatePath = BlogTemplatePath,
                              !.blogOutputFolder = <<"Blogs">>],
     [DEFAULT_SETTINGS EXCEPT !.bookTemplatePath = BookTemplatePath,
                              !.bookOutputFolder = <<"Books">>,
                              !.blogTemplatePath = BlogTemplatePath,
                              !.blogOutputFolder = <<"Blogs">>,
                              !.anthropicApiKey = <<"sk-ant-key">>],
     [DEFAULT_SETTINGS EXCEPT !.bookTemplatePath = BookTemplatePath,
                              !.bookOutputFolder = <<"Trash">>,
                              !.blogTemplatePath = BlogTemplatePath,
                              !.blogOutputFolder = <<"Trash">>,
                              !.anthropicApiKey = <<"sk-ant-key">>]}

VaultFolders == {<<"Templates">>, <<"Books">>, <<"Blogs">>}

ExistingNote == <<"Books", "/", "Dune", ".md">>

\* The vault with the two templates and, when withNote, an earlier note.
Vault(bookTemplate, blogTemplate, withNote) ==
    [path \in {BookTemplatePath, BlogTemplatePath}
                \cup (IF withNote THEN {ExistingNote} ELSE {}) |->
        IF path = BookTemplatePath THEN bookTemplate
        ELSE IF path = BlogTemplatePath THEN blogTemplate
        ELSE <<"old">>]

\* Create clicks per modal.
MaxClicks == 2


(***************************************************************************)
(* The Create invocation.                                                  *)
(***************************************************************************)
InitWith(kinds, savedSettings) ==
    /\ modal \in kinds
    /\ settings \in savedSettings
    /\ \E template \in Templates(modal) :
           files = Vault(IF modal = "book" THEN template ELSE TitleByAuthor,
                         IF modal = "blog" THEN template ELSE BlogCard,
                         TRUE)
    /\ folders = VaultFolders
    /\ isOpen = TRUE
    /\ url = <<>>
    /\ loadingDisplay = "none"
    /\ buttonDisplay = "flex"
    /\ pc = "idle"
    /\ targetUrl = <<>>
    /\ proxyIdx = 0
    /\ htmlContent = <<>>
    /\ proxyError = <<>>
    /\ response = NoResponse
    /\ summaryResponse = NoResponse
    /\ cleanedContent = <<>>
    /\ bookInfo = NoInfo
    /\ requests = <<>>
    /\ notices = <<>>
    /\ leaf = <<>>
    /\ vaultCalls = <<>>
    /\ clicks = 0

\* A modal just opened by its command (main.ts:473-488, 896-967, 1233-1325).
Init == InitWith({"book", "blog"}, SavedSettings) /\ unresponsive = {}

\* main.ts:911-913, 1248-1250: the input listener.  The user types between
\* invocations; the handler reads this.url only when Create is clicked.
InputUrl ==
    /\ isOpen
    /\ pc = "idle"
    /\ \E u \in Urls(modal) : url' = u
    /\ UNCHANGED <<unresponsive, vaultVars, modal, isOpen, loadingDisplay,
                   buttonDisplay, pc, fetchVars, notices, clicks>>

\* Cancel, Escape or a click outside: Modal.close, then onClose
\* (main.ts:929, 969-972, 1287, 1327-1330).
CloseModal ==
    /\ isOpen
    /\ isOpen' = FALSE
    /\ UNCHANGED <<unresponsive, vaultVars, modal, url, loadingDisplay,
                   buttonDisplay, pc, fetchVars, notices, clicks>>

EnterUrlNotice(kind) ==
    IF kind = "book" THEN <<"Please enter a valid Amazon URL">>
    ELSE <<"Please enter a valid tech blog URL">>

FetchingNotice(kind) ==
    IF kind = "book" THEN <<"Fetching book information...">>
    ELSE <<"Fetching blog information...">>

\* Variant: the catch of the handler shows nothing.
HandlerCatchesSilently(message, shown) ==
    /\ loadingDisplay' = "none"
    /\ buttonDisplay' = "flex"
    /\ notices' = shown
    /\ pc' = "idle"

\* main.ts:957-962, 1315-1320: the catch of the click handler.
HandlerCatches(message, shown) ==
    /\ loadingDisplay' = "none"
    /\ buttonDisplay' = "flex"
    /\ notices' = shown \o << <<"Error: ">> \o ErrorText(message) >>
    /\ pc' = "idle"

\* Variant: every request of the loop goes to the first proxy.
ProxyRequestToFirst(i, target) == Request(ProxyNames[1], proxyUrls(target)[1])

\* The request to proxy i of the loop (main.ts:605, 762).
ProxyRequest(i, target) == Request(ProxyNames[i], proxyUrls(target)[i])

\* Variant: the button row stays displayed.
ShowLoadingKeepsButtons ==
    /\ loadingDisplay' = "flex"
    /\ buttonDisplay' = buttonDisplay

\* main.ts:941-942, 1299-1300
ShowLoading ==
    /\ loadingDisplay' = "flex"
    /\ buttonDisplay' = "none"

\* main.ts:933-947, 1291-1305 up to the first await of the fetch
\* (main.ts:741-762, 585-605).  The button can be clicked while its row is
\* displayed in an open dialog.
ClickCreate ==
    /\ isOpen
    /\ buttonDisplay = "flex"
    /\ clicks < MaxClicks
    /\ clicks' = clicks + 1
    /\ IF url = <<>>
       THEN /\ notices' = <<EnterUrlNotice(modal)>>
            /\ UNCHANGED <<loadingDisplay, buttonDisplay, pc, fetchVars, vaultCalls>>
       ELSE IF ~urlIsValid(modal, url)
       THEN /\ HandlerCatches(InvalidUrlMessage(modal), <<FetchingNotice(modal)>>)
            /\ UNCHANGED <<fetchVars, vaultCalls>>
       ELSE /\ ShowLoading
            /\ notices' = <<FetchingNotice(modal)>>
            /\ targetUrl' = url
            /\ htmlContent' = <<>>
            /\ proxyError' = <<>>
            /\ response' = NoResponse
            /\ summaryResponse' = NoResponse
            /\ cleanedContent' = <<>>
            /\ bookInfo' = NoInfo
            /\ proxyIdx' = 1
            /\ requests' = <<ProxyRequest(1, url)>>
            /\ vaultCalls' = <<>>
            /\ pc' = "fetch"
    /\ UNCHANGED <<unresponsive, settings, files, folders, leaf, modal, isOpen, url>>

\* Variant: the loop is left after its first entry.
loopEndsAtOnce(idx) == idx >= 1

\* main.ts:603, 760: the for-of loop ends after the entry at idx (from 1).
loopEnds(idx) == idx >= NumProxies

\* What an answer made of the request: its content, none, or a failure.
Got(answer, step) ==
    IF step.htmlContent # <<>> THEN "content"
    ELSE IF answer.rejected \/ ~IsOk(answer.status) \/ answer.bodyFails
    THEN "failed" ELSE "empty"

\* main.ts:712-726: the POST of the prompt.
SummaryRequest(content) ==
    [to |-> "anthropic", url |-> AnthropicUrl, body |-> summaryPrompt(content),
     got |-> "pending"]

\* Variant: the key is not looked at.
summaryWantedWithoutKey(cleaned, apiKey) == cleaned # <<>>

\* main.ts:650: cleanedContent && this.settings.anthropicApiKey
summaryWanted(cleaned, apiKey) == cleaned # <<>> /\ apiKey # <<>>

\* main.ts:640-657: after the loop of fetchBlogInfo, up to the await of the
\* summary (taken iff there is content to summarize and a key); cleaned is
\* cleanHtml(extractMainContent(page)).
BlogAfterFetch(page, cleaned) ==
    /\ cleanedContent' = cleaned
    /\ IF summaryWanted(cleaned, settings.anthropicApiKey)
       THEN /\ pc' = "summary"
            /\ bookInfo' = NoInfo
            /\ requests' = [requests EXCEPT ![proxyIdx].got = "content"]
                               \o <<SummaryRequest(cleaned)>>
       ELSE /\ pc' = "create"
            /\ bookInfo' = [title |-> blogTitle(page), summary |-> NoSummary,
                            blogUrl |-> targetUrl]
            /\ requests' = [requests EXCEPT ![proxyIdx].got = "content"]

\* The rest of the loop body on an answer, step being what proxyStep made of
\* it: the extraction, or the next request, or the failure
\* (main.ts:605-668, 762-848).
ProxyAnswered(answer, step) ==
    /\ response' = answer
    /\ htmlContent' = step.htmlContent
    /\ proxyError' = step.proxyError
    /\ IF step.htmlContent # <<>>
       THEN /\ proxyIdx' = proxyIdx
            /\ UNCHANGED <<loadingDisplay, buttonDisplay, notices>>
            /\ IF modal = "book"
               THEN /\ bookInfo' = extractBook(step.htmlContent, targetUrl)
                    /\ requests' = [requests EXCEPT ![proxyIdx].got = "content"]
                    /\ pc' = "create"
                    /\ UNCHANGED cleanedContent
               ELSE BlogAfterFetch(step.htmlContent,
                                   cleanHtml(extractMainContent(step.htmlContent)))
       ELSE IF ~loopEnds(proxyIdx)
       THEN /\ proxyIdx' = proxyIdx + 1
            /\ requests' = [requests EXCEPT ![proxyIdx].got = Got(answer, step)]
                               \o <<ProxyRequest(proxyIdx + 1, targetUrl)>>
            /\ UNCHANGED <<loadingDisplay, buttonDisplay, notices, pc,
                           bookInfo, cleanedContent>>
       ELSE /\ proxyIdx' = proxyIdx
            /\ requests' = [requests EXCEPT ![proxyIdx].got = Got(answer, step)]
            /\ HandlerCatches(
                   outerFailure(modal, innerFailure(modal, step.proxyError)),
                   notices)
            /\ UNCHANGED <<bookInfo, cleanedContent>>

\* The answer of the awaited proxy arrives.
ProxyAnswers(answers) ==
    /\ pc = "fetch"
    /\ ProxyNames[proxyIdx] \notin unresponsive
    /\ \E answer \in answers :
           ProxyAnswered(answer, proxyStep(answer, htmlContent, proxyError))
    /\ UNCHANGED <<unresponsive, vaultVars, modal, isOpen, url, targetUrl, summaryResponse,
                   clicks>>

\* What the summarization request got.
SummaryGot(result) == IF result.threw THEN "failed" ELSE "content"

\* The answer of the summarization endpoint arrives (main.ts:652-664).
SummaryAnswersArrive ==
    /\ pc = "summary"
    /\ "anthropic" \notin unresponsive
    /\ \E answer \in SummaryAnswers :
         /\ bookInfo' = [title |-> blogTitle(htmlContent),
                         summary |-> blogSummary(generateSummaryWithAnthropic(answer)),
                         blogUrl |-> targetUrl]
         /\ requests' = [requests EXCEPT ![Len(requests)].got =
                            SummaryGot(generateSummaryWithAnthropic(answer))]
         /\ summaryResponse' = answer
    /\ pc' = "create"
    /\ UNCHANGED <<unresponsive, vaultVars, modal, isOpen, url, loadingDisplay, buttonDisplay,
                   targetUrl, proxyIdx, htmlContent, proxyError, response,
                   cleanedContent, notices, clicks>>

\* Variant: the template of blog cards for every record.
templatePathOfBlog(info) == settings.blogTemplatePath

\* main.ts:517-525: the template and the output folder of a record.
templatePathOf(info) ==
    IF "amazonUrl" \in DOMAIN info THEN settings.bookTemplatePath
    ELSE IF "blogUrl" \in DOMAIN info THEN settings.blogTemplatePath ELSE <<>>

outputFolderOf(info) ==
    IF "amazonUrl" \in DOMAIN info THEN settings.bookOutputFolder
    ELSE IF "blogUrl" \in DOMAIN info THEN settings.blogOutputFolder ELSE <<>>

\* vault.create: a file with the content at the path.
vaultCreate(vault, filePath, content) ==
    [path \in DOMAIN vault \cup {filePath} |->
        IF path = filePath THEN content ELSE vault[path]]

\* Variant: every path passes for a folder.
isFolderAlways(path) == TRUE

\* main.ts:535-536: getAbstractFileByPath(path) instanceof TFolder
isFolder(path) == path \in folders

\* main.ts:528-529, 576-577: getAbstractFileByPath(path) instanceof TFile
isFile(path) == path \in DOMAIN files

VaultCall(op, path) == [op |-> op, path |-> path]

\* main.ts:527-582 for the template, the folder and the file name chosen.
createNoteFromTemplate(templatePath, outputFolderPath, fileName) ==
    IF ~isFile(templatePath)
    THEN /\ notices' = Append(notices,
                <<"Template file not found. Please check your settings.">>)
         /\ UNCHANGED <<files, leaf, vaultCalls>>
    ELSE IF ~isFolder(outputFolderPath)
    THEN /\ notices' = Append(notices,
                <<"Output folder not found. Please check your settings.">>)
         /\ UNCHANGED <<files, leaf, vaultCalls>>
    ELSE IF isFile(noteFilePath(outputFolderPath, fileName))
    THEN /\ notices' = Append(notices,
                <<"Error creating note: ">> \o ErrorText(<<"File already exists.">>))
         /\ vaultCalls' = vaultCalls
                \o <<VaultCall("read", templatePath),
                     VaultCall("create", noteFilePath(outputFolderPath, fileName))>>
         /\ UNCHANGED <<files, leaf>>
    ELSE /\ files' = vaultCreate(files, noteFilePath(outputFolderPath, fileName),
                                 renderTemplate(files[templatePath], bookInfo))
         /\ notices' = Append(notices, <<"Card created: ">> \o fileName)
         /\ vaultCalls' = vaultCalls
                \o <<VaultCall("read", templatePath),
                     VaultCall("create", noteFilePath(outputFolderPath, fileName))>>
         /\ leaf' = noteFilePath(outputFolderPath, fileName)

\* What vault.read throws when the file cannot be read.
ReadError == <<"ENOENT: no such file or directory">>

\* main.ts:542 is reached and vault.read throws: the call is outside the try
\* of createNoteFromTemplate, so the error reaches the catch of the handler
\* (main.ts:957-962, 1315-1320).
ReadThrows(templatePath) ==
    /\ vaultCalls' = Append(vaultCalls, VaultCall("read", templatePath))
    /\ HandlerCatches(ReadError, notices)
    /\ UNCHANGED <<files, leaf, isOpen>>

\* main.ts:512-583, then this.close() (main.ts:955-956, 1313-1314); the
\* read of the template may throw.
CreateNote ==
    /\ pc = "create"
    /\ \E readFails \in BOOLEAN :
           IF /\ readFails
              /\ isFile(templatePathOf(bookInfo))
              /\ isFolder(outputFolderOf(bookInfo))
           THEN ReadThrows(templatePathOf(bookInfo))
           ELSE /\ createNoteFromTemplate(templatePathOf(bookInfo),
                                          outputFolderOf(bookInfo),
                                          noteFileName(bookInfo))
                /\ pc' = "done"
                /\ isOpen' = FALSE
                /\ UNCHANGED <<loadingDisplay, buttonDisplay>>
    /\ UNCHANGED <<unresponsive, settings, folders, modal, url, fetchVars, clicks>>

AllAnswers(kind) == FailingAnswers \cup EmptyAnswers \cup PageAnswers(Pages(kind))

Next ==
    \/ InputUrl
    \/ CloseModal
    \/ ClickCreate
    \/ ProxyAnswers(AllAnswers(modal))
    \/ SummaryAnswersArrive
    \/ CreateNote

Spec == Init /\ [][Next]_vars


(***************************************************************************)
(* The call generateSummaryWithAnthropic(cleanedContent) on long texts.    *)
(* Here every element of a text is one UTF-16 code unit, so that Len is    *)
(* the length the code compares.  The run starts at main.ts:648 with the   *)
(* cleaned text of a page a proxy gave, and takes the step up to the await *)
(* of the summary.                                                         *)
(***************************************************************************)
\* Lengths within Slack of the maximum are tried.
Slack == 50

\* A text of n code units; the two families differ at every place.
LongText(n, family) ==
    [i \in 1..n |-> IF i % 10 = 0 THEN "."
                    ELSE IF (i + family) % 2 = 0 THEN "a" ELSE "b"]

LongTexts ==
    {LongText(n, family) :
        n \in (maxContentLength - Slack)..(maxContentLength + Slack),
        family \in {0, 1}}

TruncInit ==
    /\ modal = "blog"
    /\ settings \in {s \in SavedSettings : s.anthropicApiKey # <<>>}
    /\ files = Vault(TitleByAuthor, BlogCard, TRUE)
    /\ folders = VaultFolders
    /\ isOpen = TRUE
    /\ url = BlogUrl
    /\ loadingDisplay = "flex"
    /\ buttonDisplay = "none"
    /\ pc = "cleaned"
    /\ targetUrl = BlogUrl
    /\ proxyIdx = 1
    /\ htmlContent = PostPage
    /\ proxyError = <<>>
    /\ response = NoResponse
    /\ summaryResponse = NoResponse
    /\ cleanedContent \in LongTexts
    /\ unresponsive = {}
    /\ bookInfo = NoInfo
    /\ requests = <<[ProxyRequest(1, BlogUrl) EXCEPT !.got = "content"]>>
    /\ notices = <<FetchingNotice("blog")>>
    /\ leaf = <<>>
    /\ vaultCalls = <<>>
    /\ clicks = 1

\* main.ts:650-652, 694-726: the call, up to the await of its fetch.
SummarizeCleaned ==
    /\ pc = "cleaned"
    /\ summaryWanted(cleanedContent, settings.anthropicApiKey)
    /\ requests' = Append(requests, SummaryRequest(cleanedContent))
    /\ pc' = "summary"
    /\ UNCHANGED <<unresponsive, vaultVars, modal, isOpen, url, loadingDisplay, buttonDisplay,
                   targetUrl, proxyIdx, htmlContent, proxyError, response,
                   summaryResponse, cleanedContent, bookInfo, notices, clicks>>

TruncNext == SummarizeCleaned

TruncSpec == TruncInit /\ [][TruncNext]_vars


(***************************************************************************)
(* The invocation when a host may never answer.  await fetch(...) resumes  *)
(* the handler when the host answers, and the handler then runs to its     *)
(* next await: every step but the user's is taken once it can be.          *)
(***************************************************************************)
\* The hosts that may stay silent: none, or the second proxy.
SilentHosts == {{}, {"corsproxy.io"}}

LiveInit ==
    /\ InitWith({"book", "blog"},
                {s \in SavedSettings : s.bookOutputFolder = <<"Books">>})
    /\ unresponsive \in SilentHosts

\* The handler is at an await that will be resumed (the host answers, or
\* the call awaited is the vault's), and it moves on: to another stage, or
\* to the next proxy.
HandlerResumes ==
    /\ \/ pc = "fetch" /\ ProxyNames[proxyIdx] \notin unresponsive
       \/ pc = "summary" /\ "anthropic" \notin unresponsive
       \/ pc = "create"
    /\ pc' \in {"idle", "fetch", "summary", "create", "done"}
    /\ proxyIdx' \in 0..NumProxies

\* An awaited promise that settles resumes the handler.
Fairness == WF_<<pc, proxyIdx>>(HandlerResumes)

LiveSpec == LiveInit /\ [][Next]_vars /\ Fairness


(***************************************************************************)
(* Properties of the proxy chain.                                          *)
(***************************************************************************)
IsProxyRequest(r) == r.to # "anthropic"

\* The requests of the invocation that went to a proxy, in order.
ProxyRequests == SelectSeq(requests, IsProxyRequest)

\* The index of the proxy request response answers.
LastAnswered ==
    IF requests[proxyIdx].got = "pending" THEN proxyIdx - 1 ELSE proxyIdx

\* A non-2xx status or an exception.
Failed(a) == a.rejected \/ a.status < 200 \/ a.status > 299 \/ a.bodyFails

IsJson(a) == Includes(a.contentType, <<"application/json">>)

\* The answer yields non-empty content.
Yields(a) == ~Failed(a) /\ a.body # <<>> /\ (IsJson(a) => a.hasContents)

LastNotice == notices[Len(notices)]

FetchFailureNotices ==
    {<<"Error: ", "Error: ",
       "Failed to fetch book information. Please check the URL and try again.">>,
     <<"Error: ", "Error: ",
       "Failed to fetch blog information. Please check the URL and try again.">>}

\* The user is told that the fetch failed.
FetchFailureShown == notices # <<>> /\ LastNotice \in FetchFailureNotices

ProxyHosts ==
    <<"https://api.allorigins.win/get?url=", "https://corsproxy.io/?",
      "https://cors-anywhere.herokuapp.com/">>

PageTitle(page) == IF modal = "book" THEN bookTitle(page) ELSE blogTitle(page)

\* The handler is idle again because the read of the template threw.
ReadThrew == pc = "idle" /\ vaultCalls # <<>>

\* C1: the proxies are requested one at a time in the order allorigins,
\* corsproxy.io, cors-anywhere; once an answer yields non-empty content no
\* later proxy is requested in the invocation, and that content is what the
\* extraction reads.
C1_FixedOrderFirstContentWins ==
    /\ Len(ProxyRequests) <= Len(ProxyHosts)
    /\ \A i \in 1..Len(ProxyRequests) :
           /\ Head(ProxyRequests[i].url) = ProxyHosts[i]
           /\ i < Len(ProxyRequests) => ProxyRequests[i].got \in {"empty", "failed"}
    /\ response # NoResponse =>
           IF Yields(response)
           THEN /\ LastAnswered = Len(ProxyRequests)
                /\ requests[LastAnswered].got = "content"
                /\ htmlContent = response.body
                /\ pc \in {"summary", "create", "done"} \/ ReadThrew
                /\ bookInfo # NoInfo => bookInfo.title = PageTitle(response.body)
           ELSE /\ requests[LastAnswered].got # "content"
                /\ htmlContent = <<>>

\* Only the third proxy yielded content, and the extraction has read it.
C1_Witness ==
    /\ pc = "create"
    /\ Len(ProxyRequests) = 3
    /\ ProxyRequests[3].got = "content"
    /\ htmlContent = response.body

\* C2: a non-2xx status or an exception at a proxy is not propagated while
\* an untried proxy remains, the next proxy is requested; the user is told
\* of a fetch failure only when all three proxies gave no content.
C2_FailureTriesNextProxy ==
    /\ \A i \in 1..Len(ProxyRequests) :
           (ProxyRequests[i].got = "failed" /\ i < 3) => Len(ProxyRequests) > i
    /\ response # NoResponse =>
           /\ Failed(response) <=> requests[LastAnswered].got = "failed"
           /\ (Failed(response) /\ LastAnswered < 3) =>
                  /\ pc = "fetch"
                  /\ ~FetchFailureShown
                  /\ requests[LastAnswered + 1].got = "pending"
    /\ FetchFailureShown =>
           /\ Len(ProxyRequests) = 3
           /\ \A i \in 1..3 : ProxyRequests[i].got \in {"failed", "empty"}

\* The first proxy failed, a later one gave the page.
C2_Witness ==
    /\ pc = "create"
    /\ Len(ProxyRequests) >= 2
    /\ ProxyRequests[1].got = "failed"

\* C3: when all three proxies are exhausted without content, the failure
\* shown to the user carries the last recorded proxy error message.
C3_FailureCarriesLastError ==
    (FetchFailureShown /\ proxyError # <<>>) => Includes(LastNotice, proxyError)

\* C4 as stated: the page content of a 2xx answer is the value of contents
\* when the body is JSON with that field, and the raw body text in every
\* other case, a JSON body without the field included (body is that value
\* or that text).
C4_RawTextInEveryOtherCase ==
    (response # NoResponse /\ ~Failed(response)) => htmlContent = response.body

\* C4 as amended: the page content of a 2xx answer is the value of contents
\* when the body is JSON with that field, the raw body text when the content
\* type is not JSON, and nothing when the body is JSON without the field:
\* the next proxy is then requested.
C4_JsonWithoutContentsIsSkipped ==
    (response # NoResponse /\ ~Failed(response)) =>
        IF IsJson(response) /\ ~response.hasContents
        THEN /\ htmlContent = <<>>
             /\ requests[LastAnswered].got = "empty"
             /\ LastAnswered < 3 => requests[LastAnswered + 1].got = "pending"
        ELSE htmlContent = response.body

\* A JSON body without contents was answered and the next proxy is awaited.
C4_Witness ==
    /\ pc = "fetch"
    /\ response # NoResponse
    /\ ~Failed(response)
    /\ IsJson(response)
    /\ ~response.hasContents
    /\ response.body # <<>>

(***************************************************************************)
(* Properties of the extraction.                                           *)
(***************************************************************************)
\* C5: every string field of the record the fetch returns is non-empty.
C5_EveryFieldNonEmpty ==
    bookInfo # NoInfo => \A f \in DOMAIN bookInfo : bookInfo[f] # <<>>

\* No description pattern of fetchBookInfo matches the page.
NoDescription(page) ==
    /\ ~StrMatch(page, bookDescriptionRe).ok
    /\ ~StrMatch(page, productDescriptionRe).ok
    /\ ~StrMatch(page, expanderRe).ok
    /\ ~StrMatch(page, noscriptRe).ok

\* C6: a marker that is absent from the page never raises: the fetch returns
\* with the field at its fallback, Unknown Title, Unknown Author, No summary
\* available. and Fiction for a book, Unknown Title for a blog.
C6_FallbackOnAbsence ==
    /\ (response # NoResponse /\ Yields(response)) =>
           /\ pc \in {"summary", "create", "done"} \/ ReadThrew
           /\ ~FetchFailureShown
    /\ (pc \in {"create", "done"} /\ modal = "book") =>
           /\ ~StrMatch(htmlContent, productTitleRe).ok =>
                  bookInfo.title = <<"Unknown Title">>
           /\ (~StrMatch(htmlContent, authorLinkRe).ok
                 /\ ~StrMatch(htmlContent, bylineRe).ok) =>
                  bookInfo.author = <<"Unknown Author">>
           /\ NoDescription(htmlContent) =>
                  bookInfo.summary = <<"No summary available.">>
           /\ (~StrMatch(htmlContent, breadcrumbsRe).ok
                 /\ ~StrMatch(htmlContent, tertiaryRe).ok) =>
                  bookInfo.genre = <<"Fiction">>
    /\ (pc \in {"create", "done"} /\ modal = "blog"
          /\ ~StrMatch(htmlContent, pageTitleRe).ok
          /\ ~StrMatch(htmlContent, headingRe).ok) =>
           bookInfo.title = <<"Unknown Title">>

\* A page without any marker has been extracted.
C6_Witness ==
    /\ pc = "create"
    /\ modal = "book"
    /\ ~StrMatch(htmlContent, productTitleRe).ok
    /\ NoDescription(htmlContent)
    /\ bookInfo.title = <<"Unknown Title">>
    /\ bookInfo.summary = <<"No summary available.">>

(***************************************************************************)
(* Properties of the note.                                                 *)
(***************************************************************************)
\* The fields a token of a record's kind may name.
Recognized(info, namespace, field) ==
    IF "amazonUrl" \in DOMAIN info
    THEN namespace = "book-creator"
           /\ field \in {"title", "author", "genre", "summary", "amazon-link"}
    ELSE namespace = "blog-creator" /\ field \in {"title", "summary", "blog-link"}

\* The source link of a record, as the specification describes it.
LinkChars == {"#", "[", "]", "|"}

NotLinkChar(a) == a \notin LinkChars

SourceLink(info, entered) ==
    <<"[">> \o Trim(SelectSeq(info.title, NotLinkChar)) \o <<"]", "(">>
        \o entered \o <<")">>

\* The value a recognized token stands for.
FieldValue(info, field) ==
    IF field \in {"amazon-link", "blog-link"}
    THEN SourceLink(info, IF "amazonUrl" \in DOMAIN info THEN info.amazonUrl
                          ELSE info.blogUrl)
    ELSE info[field]

IsTokenAt(template) ==
    /\ Len(template) >= 5
    /\ template[1] = "{{"
    /\ template[3] = ":"
    /\ template[5] = "}}"

RECURSIVE Substituted(_, _)
\* The template with every recognized token replaced by its value, and
\* nothing else changed.
Substituted(template, info) ==
    IF template = <<>> THEN <<>>
    ELSE IF IsTokenAt(template) /\ Recognized(info, template[2], template[4])
    THEN FieldValue(info, template[4])
             \o Substituted(SubSeq(template, 6, Len(template)), info)
    ELSE <<Head(template)>> \o Substituted(Tail(template), info)

\* The template the note was rendered from.
TemplateOf(kind) ==
    files[IF kind = "book" THEN settings.bookTemplatePath
          ELSE settings.blogTemplatePath]

\* C7: the note is the template with every occurrence of each recognized
\* token of the record's kind replaced by the field's value, all other text
\* unchanged.
C7_EveryOccurrenceReplaced ==
    leaf # <<>> => files[leaf] = Substituted(TemplateOf(modal), bookInfo)

CountOf(s, sub) ==
    Cardinality({i \in 1..(Len(s) - Len(sub) + 1) :
                     SubSeq(s, i, i + Len(sub) - 1) = sub})

\* Tokens of the other kind, and tokens no kind knows.
ForeignTokens(kind) ==
    IF kind = "book"
    THEN {Token("blog-creator", f) : f \in {"title", "summary", "blog-link"}}
             \cup {Token("book-creator", "isbn")}
    ELSE {Token("book-creator", f) :
              f \in {"title", "author", "genre", "summary", "amazon-link"}}
             \cup {Token("blog-creator", "author")}

NoteFailures ==
    {<<"Template file not found. Please check your settings.">>,
     <<"Output folder not found. Please check your settings.">>,
     <<"Error creating note: ", "Error: ", "File already exists.">>}

\* C8: tokens of the other kind and unrecognized tokens are in the note as
\* they are in the template, and raise no error: a note that is not created
\* has a missing template, a missing folder or an existing file for reason.
C8_ForeignTokensVerbatim ==
    /\ leaf # <<>> =>
           \A tok \in ForeignTokens(modal) :
               CountOf(files[leaf], tok) >= CountOf(TemplateOf(modal), tok)
    /\ (pc = "done" /\ leaf = <<>>) => LastNotice \in NoteFailures

\* A book note holds the blog title token and the unknown token of its
\* template.
C8_Witness ==
    /\ leaf # <<>>
    /\ modal = "book"
    /\ CountOf(TemplateOf("book"), Token("blog-creator", "title")) > 0
    /\ CountOf(files[leaf], Token("blog-creator", "title")) > 0
    /\ CountOf(files[leaf], Token("book-creator", "isbn")) > 0

\* C9: the link token renders as [displayText](url), displayText the title
\* without the characters # [ ] | and trimmed, url the URL the user entered.
C9_LinkOfTitleAndEnteredUrl ==
    leaf # <<>> => CountOf(files[leaf], SourceLink(bookInfo, url)) > 0

IllegalChars == {"\\", "/", ":", "*", "?", "\"", "<", ">", "|"}

NotIllegalChar(a) == a \notin IllegalChars

OutputFolder ==
    IF modal = "book" THEN settings.bookOutputFolder ELSE settings.blogOutputFolder

\* C10: the note is created at outputFolder/sanitizedTitle.md, the title
\* without the nine characters \ / : * ? " < > | and otherwise as it is; the
\* title Foo: Bar/Baz? gives the file name Foo BarBaz.md.
C10_NotePath ==
    leaf # <<>> =>
        /\ leaf = OutputFolder \o <<"/">>
                      \o SelectSeq(bookInfo.title, NotIllegalChar) \o <<".md">>
        /\ leaf \in DOMAIN files
        /\ \A i \in (Len(OutputFolder) + 2)..Len(leaf) : leaf[i] \notin IllegalChars
        /\ LastNotice = <<"Card created: ">>
                            \o SubSeq(leaf, Len(OutputFolder) + 2, Len(leaf))
        /\ bookInfo.title = <<"Foo", ":", " ", "Bar", "/", "Baz", "?">> =>
               SubSeq(leaf, Len(OutputFolder) + 2, Len(leaf))
                   = <<"Foo", " ", "Bar", "Baz", ".md">>

\* The note of the book titled Foo: Bar/Baz? has been created.
C10_Witness ==
    /\ pc = "done"
    /\ bookInfo # NoInfo
    /\ bookInfo.title = <<"Foo", ":", " ", "Bar", "/", "Baz", "?">>
    /\ leaf = <<"Books", "/", "Foo", " ", "Bar", "Baz", ".md">>

TemplatePath ==
    IF modal = "book" THEN settings.bookTemplatePath ELSE settings.blogTemplatePath

CreateFailedNotice == <<"Error creating note: ", "Error: ", "File already exists.">>

\* C11: with a template path that is no file or an output folder that is no
\* folder, createNoteFromTemplate notifies the user and returns without
\* reading the template and without calling vault.create; a failure of
\* vault.create is reported by a notice and not rethrown: the handler goes
\* on to close the modal and its catch does not run.
C11_PreconditionsHaltBeforeCreate ==
    /\ pc # "done" =>
           \/ vaultCalls = <<>>
           \/ pc = "idle" /\ vaultCalls = <<[op |-> "read", path |-> TemplatePath]>>
    /\ pc = "done" =>
           IF TemplatePath \notin DOMAIN files
           THEN /\ vaultCalls = <<>>
                /\ leaf = <<>>
                /\ LastNotice = <<"Template file not found. Please check your settings.">>
           ELSE IF OutputFolder \notin folders
           THEN /\ vaultCalls = <<>>
                /\ leaf = <<>>
                /\ LastNotice = <<"Output folder not found. Please check your settings.">>
           ELSE /\ Len(vaultCalls) = 2
                /\ vaultCalls[1] = [op |-> "read", path |-> TemplatePath]
                /\ vaultCalls[2].op = "create"
    /\ (notices # <<>> /\ LastNotice = CreateFailedNotice) =>
           /\ pc = "done"
           /\ ~isOpen
           /\ loadingDisplay = "flex"
           /\ \A i \in 1..Len(notices) : Head(notices[i]) # "Error: "

\* The output folder is missing: the user was told, nothing was read or
\* created.
C11_Witness ==
    /\ pc = "done"
    /\ TemplatePath \in DOMAIN files
    /\ OutputFolder \notin folders
    /\ LastNotice = <<"Output folder not found. Please check your settings.">>
    /\ vaultCalls = <<>>

\* The summarization request did not give a summary: the fetch threw, the
\* status is not 2xx, the body does not parse, or the payload has no first
\* content element.
SummaryFailed(answer) ==
    \/ answer.rejected
    \/ answer.status \notin 200..299
    \/ answer.bodyFails
    \/ ~answer.hasText

SummaryFailedText ==
    <<"Failed to generate summary: ", "Failed to generate summary with Anthropic API">>

HandlerCaught == \E i \in 1..Len(notices) : Head(notices[i]) = "Error: "

\* C12: no outcome of the summarization request aborts the creation of the
\* note: once the request has ended, however it ended, fetchBlogInfo has
\* returned a record with a non-empty summary (the failure text when the
\* request failed), the handler's catch has not run before
\* createNoteFromTemplate, and the handler is at or past
\* createNoteFromTemplate, which reported its outcome when it returned.
C12_SummaryFailureKeepsCreating ==
    summaryResponse # NoResponse =>
        /\ htmlContent # <<>>
        /\ pc \in {"create", "done"} \/ ReadThrew
        /\ bookInfo # NoInfo
        /\ bookInfo.summary # <<>>
        /\ SummaryFailed(summaryResponse) => bookInfo.summary = SummaryFailedText
        /\ pc \in {"create", "done"} => ~HandlerCaught /\ loadingDisplay = "flex"
        /\ pc = "done" =>
               /\ Len(notices) = 2
               /\ \/ vaultCalls # <<>>
                  \/ TemplatePath \notin DOMAIN files
                  \/ OutputFolder \notin folders

\* The request was rejected and the note was still created, with the
\* failure text for its summary.
C12_Witness ==
    /\ pc = "done"
    /\ summaryResponse # NoResponse
    /\ summaryResponse.rejected
    /\ bookInfo.summary = SummaryFailedText
    /\ leaf # <<>>

SummaryRequests == SelectSeq(requests, LAMBDA r : r.to = "anthropic")

\* The texts of the program that speak of the missing key (main.ts:697,
\* 1256).
KeyMessages ==
    {<<"Anthropic API key is not set">>,
     <<"Warning: Anthropic API Key is not set. LLM summary will not be available.">>}

BlogReturned == modal = "blog" /\ bookInfo # NoInfo

\* C13 as the specification words it: with an empty API key the summary of
\* the record is a message about configuring the key.
C13_KeyMessageWithoutKey ==
    (settings.anthropicApiKey = <<>> /\ BlogReturned) =>
        bookInfo.summary \in KeyMessages

\* C13: with an empty API key the summary of the record is the fixed text
\* 'No summary available.', a value and not a failure text, and no request
\* is sent to the summarization endpoint during the invocation.
C13_NoKeyDefaultSummaryNoRequest ==
    settings.anthropicApiKey = <<>> =>
        /\ SummaryRequests = <<>>
        /\ summaryResponse = NoResponse
        /\ pc # "summary"
        /\ BlogReturned => bookInfo.summary = <<"No summary available.">>

\* A blog note was created without a key, from a page with content.
C13_Witness ==
    /\ settings.anthropicApiKey = <<>>
    /\ BlogReturned
    /\ cleanedContent # <<>>
    /\ pc = "done"
    /\ leaf # <<>>
    /\ SummaryRequests = <<>>

\* The article text of a prompt: what stands between its two fixed parts.
EmbeddedText(prompt) == SubSeq(prompt, 2, Len(prompt) - 1)

EmbeddedAsClaimed(content, embedded) ==
    /\ Len(content) <= 10000 => embedded = content
    /\ Len(content) > 10000 =>
           /\ Len(embedded) = 10003
           /\ SubSeq(embedded, 1, 10000) = SubSeq(content, 1, 10000)
           /\ SubSeq(embedded, 10001, 10003) = <<".", ".", ".">>
    /\ Len(embedded) <= 10003
    /\ (embedded # content) <=> (Len(content) > 10000)

\* C14: the article text in the prompt of the summarization request is the
\* cleaned text itself when that has at most 10000 characters, and otherwise
\* its first 10000 characters followed by '...'; it never has more than
\* 10003 characters, and the marker was appended exactly when the text was
\* cut.
C14_EmbeddedTextBounded ==
    \A i \in 1..Len(requests) :
        requests[i].to = "anthropic" =>
            EmbeddedAsClaimed(cleanedContent, EmbeddedText(requests[i].body))

\* A text of 10001 characters was cut, and one of exactly 10000 was not.
C14_Witness ==
    /\ pc = "summary"
    /\ Len(cleanedContent) = 10001
    /\ Len(EmbeddedText(requests[Len(requests)].body)) = 10003

C14_WitnessAtMax ==
    /\ pc = "summary"
    /\ Len(cleanedContent) = 10000
    /\ EmbeddedText(requests[Len(requests)].body) = cleanedContent

\* The summarization request was answered 2xx with a body that parses.
SummarySucceeded ==
    /\ summaryResponse # NoResponse
    /\ ~summaryResponse.rejected
    /\ summaryResponse.status \in 200..299
    /\ ~summaryResponse.bodyFails

\* C15: on a 2xx answer of the summarization endpoint the summary is the
\* text of the first element of the content array, and exactly
\* 'No summary available.' when that text is absent: no first element (no
\* array or an empty one), or a missing or empty text field.
C15_FirstTextOrDefault ==
    (SummarySucceeded /\ bookInfo # NoInfo) =>
        bookInfo.summary =
            IF summaryResponse.hasText /\ summaryResponse.text # <<>>
            THEN summaryResponse.text
            ELSE <<"No summary available.">>

\* The places of text where a paragraph-close or a line-break tag starts.
SeparatorsOf(text) ==
    {i \in 1..(Len(text) - 2) :
        /\ text[i] = "<"
        /\ text[i + 1] \in {"/p", "br"}
        /\ text[i + 2] = ">"}

\* out is a, then something with a newline in it, then b.
SeparatedByNewline(out, a, b) ==
    /\ Len(out) > Len(a) + Len(b)
    /\ SubSeq(out, 1, Len(a)) = a
    /\ SubSeq(out, Len(out) - Len(b) + 1, Len(out)) = b
    /\ \E k \in (Len(a) + 1)..(Len(out) - Len(b)) : out[k] = "\n"

\* The text cleaned stays apart at the tag at i: what is before the tag and
\* what is after it, each cleaned on its own and not empty, are separated by
\* a newline in the whole text cleaned.
StaysApartAt(text, out, i) ==
    (/\ cleanHtml(SubSeq(text, 1, i - 1)) # <<>>
     /\ cleanHtml(SubSeq(text, i + 3, Len(text))) # <<>>)
        => SeparatedByNewline(out, cleanHtml(SubSeq(text, 1, i - 1)),
                              cleanHtml(SubSeq(text, i + 3, Len(text))))

\* C16: cleanHtml keeps the paragraph structure: two paragraphs separated by
\* '</p>', or two lines separated by '<br>', in the main content of the page
\* are still separated by a newline in the cleaned content.
C16_ParagraphsStayApart ==
    (modal = "blog" /\ pc \in {"summary", "create", "done"}) =>
        \A i \in SeparatorsOf(extractMainContent(htmlContent)) :
            StaysApartAt(extractMainContent(htmlContent), cleanedContent, i)

\* What the handler and the fetch refuse: an empty field, a book URL without
\* 'amazon', a blog URL without 'http'.
InvalidInput(kind, u) ==
    \/ u = <<>>
    \/ kind = "book" /\ \A i \in 1..Len(u) : u[i] # "amazon"
    \/ kind = "blog" /\ \A i \in 1..Len(u) : u[i] # "http"

InvalidInputNotices ==
    {<<"Please enter a valid Amazon URL">>,
     <<"Please enter a valid tech blog URL">>,
     <<"Error: ", "Error: ", "Invalid Amazon URL">>,
     <<"Error: ", "Error: ", "Invalid Blog URL">>}

\* C17: a click on Create with invalid input starts nothing: no request is
\* made, nothing is read or created in the vault, the user is notified in
\* the same step and the handler is idle again.
C17_InvalidInputStartsNothing ==
    [][(clicks' = clicks + 1 /\ InvalidInput(modal, url)) =>
          /\ requests' = requests
          /\ files' = files
          /\ vaultCalls' = vaultCalls
          /\ leaf' = leaf
          /\ pc' = "idle"
          /\ notices' # <<>>
          /\ notices'[Len(notices')] \in InvalidInputNotices]_vars

\* A book URL without 'amazon' was refused before any request.
C17_Witness ==
    /\ modal = "book"
    /\ clicks = 1
    /\ pc = "idle"
    /\ url # <<>>
    /\ InvalidInput(modal, url)
    /\ LastNotice = <<"Error: ", "Error: ", "Invalid Amazon URL">>
    /\ requests = <<>>
    /\ files = Vault(files[BookTemplatePath], files[BlogTemplatePath], TRUE)

Pending == {i \in 1..Len(requests) : requests[i].got = "pending"}

IsSummaryRequest(r) == r.to = "anthropic"

\* C18: the stages of an invocation are strictly sequential: at most one
\* request is in flight, and it is the last one made; each intermediary is
\* requested at most once, in the order of the list; there is at most one
\* summarization request, made only after a proxy yielded content; and the
\* vault is touched only after every request has ended and the record has
\* been returned.
C18_StagesAreSequential ==
    /\ Cardinality(Pending) <= 1
    /\ Pending \subseteq {Len(requests)}
    /\ (Pending # {}) <=> (pc \in {"fetch", "summary"})
    /\ \A i \in 1..Len(requests) :
           IF i <= Len(ProxyRequests)
           THEN /\ requests[i].to = ProxyNames[i]
                /\ i < Len(ProxyRequests) => requests[i].got \in {"failed", "empty"}
           ELSE /\ IsSummaryRequest(requests[i])
                /\ i = Len(ProxyRequests) + 1
                /\ i > 1
                /\ requests[i - 1].got = "content"
    /\ Len(ProxyRequests) <= 3
    /\ pc = "summary" => bookInfo = NoInfo
    /\ vaultCalls # <<>> =>
           /\ pc = "done" \/ ReadThrew
           /\ Pending = {}
           /\ bookInfo # NoInfo
           /\ \E i \in 1..Len(requests) :
                  ~IsSummaryRequest(requests[i]) /\ requests[i].got = "content"

\* All three proxies were asked, the last gave content, the summary was
\* requested and answered, and the note was created.
C18_Witness ==
    /\ pc = "done"
    /\ Len(requests) = 4
    /\ IsSummaryRequest(requests[4])
    /\ leaf # <<>>

\* C19: once the dialog has been closed while an invocation is in flight, no
\* further stage is taken: no new request is made and nothing is read or
\* created in the vault; the request in flight may only complete.
C19_CloseStopsThePipeline ==
    [][(~isOpen /\ pc \in {"fetch", "summary", "create"}) =>
          /\ Len(requests') = Len(requests)
          /\ files' = files
          /\ vaultCalls' = vaultCalls
          /\ leaf' = leaf]_vars

InFlight == pc \in {"fetch", "summary", "create"}

Ended == pc \in {"idle", "done"}

\* C20: an intermediary that never answers cannot stall the pipeline: every
\* Create invocation that is in flight eventually ends, with a note created
\* or a failure notice shown.
C20_EveryInvocationEnds == InFlight ~> Ended

\* The attempts made so far at the host of the request awaited.
AttemptsAtAwaited ==
    Cardinality({j \in 1..Len(requests) :
                    requests[j].to = requests[Len(requests)].to})

\* C21: each intermediary is fetched with retry: when the first attempt at
\* an intermediary fails with a network error and the resolver goes on, the
\* next request is another attempt at the same intermediary.
C21_FailedFetchIsRetried ==
    [][(/\ pc = "fetch"
        /\ pc' = "fetch"
        /\ AttemptsAtAwaited = 1
        /\ Len(requests') = Len(requests) + 1
        /\ response'.rejected) =>
          requests'[Len(requests')].to = requests[Len(requests)].to]_vars

\* The class of a URL as the specification describes it: Commerce for an
\* HTTP(S) URL whose host is, or is a subdomain of, a commerce domain; and
\* Article for every other input.
Classify(u) ==
    IF /\ Len(u) >= 7
       /\ u[1] = "http"
       /\ \E i \in 2..Len(u) : u[i] = "/" /\ u[i - 1] = "/"
       /\ \E i \in 1..Len(u) :
              /\ u[i] = "amazon"
              /\ \A j \in 6..i : u[j] # "/"
    THEN "Commerce" ELSE "Article"

RecordClass(info) == IF "amazonUrl" \in DOMAIN info THEN "Commerce" ELSE "Article"

InvalidUrlNotices ==
    {<<"Error: ", "Error: ", "Invalid Amazon URL">>,
     <<"Error: ", "Error: ", "Invalid Blog URL">>}

\* C22: the extractor follows the class of the URL and classifying never
\* raises: no input is refused as an invalid URL, and a record returned is a
\* book record exactly when the URL entered is a commerce URL.
C22_ExtractorFollowsUrl ==
    /\ \A i \in 1..Len(notices) : notices[i] \notin InvalidUrlNotices
    /\ bookInfo # NoInfo => RecordClass(bookInfo) = Classify(targetUrl)

\* How a notice that ends an invocation starts.
OutcomeHeads ==
    {"Card created: ", "Error: ", "Error creating note: ",
     "Template file not found. Please check your settings.",
     "Output folder not found. Please check your settings.",
     "Please enter a valid Amazon URL", "Please enter a valid tech blog URL"}

AllProxiesFailed ==
    /\ Len(ProxyRequests) = 3
    /\ Len(requests) = 3
    /\ requests[3].got \in {"failed", "empty"}

CapturedBy(page, re) ==
    IF StrMatch(page, re).ok THEN Group1(page, StrMatch(page, re)) ELSE <<>>

\* The first capture, in the order of the markers, that is not empty.
FirstDescription(page) ==
    IF CapturedBy(page, bookDescriptionRe) # <<>>
    THEN CapturedBy(page, bookDescriptionRe)
    ELSE IF CapturedBy(page, productDescriptionRe) # <<>>
    THEN CapturedBy(page, productDescriptionRe)
    ELSE IF CapturedBy(page, expanderRe) # <<>>
    THEN CapturedBy(page, expanderRe)
    ELSE CapturedBy(page, noscriptRe)

BookReturned == modal = "book" /\ bookInfo # NoInfo

\* C24: the summary of a book is the cleaned content of the first of the
\* four description markers that captures non-empty content, an earlier
\* marker with an empty capture notwithstanding, and 'No summary
\* available.' only when none captures content.
C24_FirstNonEmptyDescription ==
    BookReturned =>
        bookInfo.summary =
            IF FirstDescription(htmlContent) # <<>>
            THEN Trim(cleanHtml(FirstDescription(htmlContent)))
            ELSE <<"No summary available.">>

\* The anchors of the breadcrumb block of the page, in order.
Crumbs(page) ==
    IF StrMatch(page, breadcrumbsRe).ok
    THEN StrMatchAll(Group1(page, StrMatch(page, breadcrumbsRe)), anchorRe)
    ELSE <<>>

AnchorTextOf(anchor) == Trim(Group1(anchor, StrMatch(anchor, anchorRe)))

\* The genre once the tertiary-category search has run on a category chosen.
AfterTertiary(page, chosen) ==
    IF /\ chosen \in {<<"Fiction">>, <<"Kindle", " ", "Store">>}
       /\ StrMatch(page, tertiaryRe).ok
       /\ Trim(Group1(page, StrMatch(page, tertiaryRe))) # <<"Kindle", " ", "Store">>
    THEN Trim(Group1(page, StrMatch(page, tertiaryRe)))
    ELSE chosen

GenreFromCrumb(page, crumbs, k) ==
    bookInfo.genre = AfterTertiary(page, AnchorTextOf(crumbs[k]))

\* C25 as the specification words it: the category chosen from a breadcrumb
\* block with at least one anchor is the text of its last anchor.
C25_LastAnchorIsCategory ==
    (BookReturned /\ Len(Crumbs(htmlContent)) >= 1) =>
        GenreFromCrumb(htmlContent, Crumbs(htmlContent), Len(Crumbs(htmlContent)))

\* C25: the category chosen from a breadcrumb block with at least one anchor
\* is the text of the anchor before the last one, and of the only anchor
\* when there is one.
C25_AnchorBeforeLastIsCategory ==
    (BookReturned /\ Len(Crumbs(htmlContent)) >= 1) =>
        GenreFromCrumb(htmlContent, Crumbs(htmlContent),
                       Max(1, Len(Crumbs(htmlContent)) - 1))

\* Of the three anchors Books, SF, Kindle Store the second was chosen.
C25_Witness ==
    /\ BookReturned
    /\ Len(Crumbs(htmlContent)) = 3
    /\ bookInfo.genre = <<"SF">>

C25_WitnessOneAnchor ==
    /\ BookReturned
    /\ Len(Crumbs(htmlContent)) = 1
    /\ bookInfo.genre = <<"Poetry">>

\* The containers, by their place in the order of the search, that captured
\* content that is not empty.
NonEmptyContainers(html) ==
    {i \in 1..Len(contentMatches) : CapturedBy(html, contentMatches[i]) # <<>>}

MainContent(html) ==
    IF NonEmptyContainers(html) # {}
    THEN CapturedBy(html, contentMatches[Least(NonEmptyContainers(html))])
    ELSE IF StrMatch(html, bodyRe).ok
    THEN Group1(html, StrMatch(html, bodyRe))
    ELSE html

BlogExtracted == modal = "blog" /\ pc \in {"summary", "create", "done"}

\* C26: the main content of a page is the captured content of the first of
\* the containers (article, main, div of class content, entry, post) whose
\* captured content is not empty, else the content of the body, else the
\* whole page; the content cleaned is that one.
C26_FirstNonEmptyContainer ==
    BlogExtracted => cleanedContent = cleanHtml(MainContent(htmlContent))

\* An empty article element did not keep the later div from being taken.
C26_Witness ==
    /\ BlogExtracted
    /\ StrMatch(htmlContent, articleRe).ok
    /\ CapturedBy(htmlContent, articleRe) = <<>>
    /\ cleanedContent = <<"Arrakis.">>

\* No container and no body: the whole page is the content.
C26_WitnessWholePage ==
    /\ BlogExtracted
    /\ NonEmptyContainers(htmlContent) = {}
    /\ ~StrMatch(htmlContent, bodyRe).ok
    /\ cleanedContent = <<"Access", " ", "denied">>

\* No container, a body: the body is the content.
C26_WitnessBody ==
    /\ BlogExtracted
    /\ NonEmptyContainers(htmlContent) = {}
    /\ StrMatch(htmlContent, bodyRe).ok

NewFiles == DOMAIN files' \ DOMAIN files

StartsWith(s, prefix) ==
    Len(s) >= Len(prefix) /\ SubSeq(s, 1, Len(prefix)) = prefix

\* C27: no step of an invocation changes the settings; the files there were
\* stay as they were, template included; files change only by the one step
\* that creates one new file, which ends the invocation; the template read
\* and the folder written to are those of the kind of the record.
C27_OnlyOneNewFile ==
    [][/\ settings' = settings
       /\ folders' = folders
       /\ \A path \in DOMAIN files :
              path \in DOMAIN files' /\ files'[path] = files[path]
       /\ Cardinality(NewFiles) <= 1
       /\ NewFiles # {} => pc = "create" /\ pc' = "done" /\ ~isOpen'
       /\ \A i \in 1..Len(vaultCalls') :
              IF vaultCalls'[i].op = "read"
              THEN vaultCalls'[i].path = TemplatePath
              ELSE StartsWith(vaultCalls'[i].path, OutputFolder \o <<"/">>)
       /\ \A path \in NewFiles :
              vaultCalls' = <<VaultCall("read", TemplatePath),
                              VaultCall("create", path)>>]_vars

\* A blog note was created from the blog template in the blog folder, next
\* to the files there were.
C27_Witness ==
    /\ pc = "done"
    /\ modal = "blog"
    /\ Len(vaultCalls) = 2
    /\ vaultCalls[1] = VaultCall("read", settings.blogTemplatePath)
    /\ settings.blogTemplatePath # settings.bookTemplatePath
    /\ StartsWith(leaf, <<"Blogs", "/">>)
    /\ leaf \in DOMAIN files
    /\ ExistingNote \in DOMAIN files

\* The same for a book note.
C27_WitnessBook ==
    /\ pc = "done"
    /\ modal = "book"
    /\ Len(vaultCalls) = 2
    /\ vaultCalls[1] = VaultCall("read", settings.bookTemplatePath)
    /\ StartsWith(leaf, <<"Books", "/">>)
    /\ leaf \in DOMAIN files

Generic == {<<"Fiction">>, <<"Kindle", " ", "Store">>}

\* What the breadcrumbs gave: the category of the anchor taken, or the
\* default the genre starts with when there is no block or no anchor.
BreadcrumbResult(page) ==
    IF Len(Crumbs(page)) >= 1
    THEN AnchorTextOf(Crumbs(page)[Max(1, Len(Crumbs(page)) - 1)])
    ELSE <<"Fiction">>

SearchRuns(page) == Len(Crumbs(page)) = 0 \/ BreadcrumbResult(page) \in Generic

TertiaryFound(page) == StrMatch(page, tertiaryRe).ok

TertiaryResult(page) == Trim(CapturedBy(page, tertiaryRe))

TertiaryReplaces(page) ==
    /\ SearchRuns(page)
    /\ TertiaryFound(page)
    /\ TertiaryResult(page) # <<"Kindle", " ", "Store">>

\* C28: the category of the tertiary marker becomes the genre exactly when
\* the breadcrumbs gave nothing or a generic category and the marker's
\* category is not 'Kindle Store'; otherwise the genre is what the
\* breadcrumbs gave; with no breadcrumbs and no marker it is 'Fiction'.
C28_TertiaryFallback ==
    BookReturned =>
        /\ TertiaryReplaces(htmlContent) =>
               bookInfo.genre = TertiaryResult(htmlContent)
        /\ ~TertiaryReplaces(htmlContent) =>
               bookInfo.genre = BreadcrumbResult(htmlContent)
        /\ (Len(Crumbs(htmlContent)) = 0 /\ ~TertiaryFound(htmlContent)) =>
               bookInfo.genre = <<"Fiction">>

\* The breadcrumbs gave 'Kindle Store' and the marker's category replaced it.
C28_Witness ==
    /\ BookReturned
    /\ BreadcrumbResult(htmlContent) = <<"Kindle", " ", "Store">>
    /\ Len(Crumbs(htmlContent)) = 1
    /\ bookInfo.genre = <<"SF">>

\* A marker is there, the breadcrumbs gave a category of their own: kept.
C28_WitnessNoSearch ==
    /\ BookReturned
    /\ TertiaryFound(htmlContent)
    /\ ~SearchRuns(htmlContent)
    /\ bookInfo.genre = <<"Poetry">>

\* The marker names the store: the default stays.
C28_WitnessStoreMarker ==
    /\ BookReturned
    /\ TertiaryFound(htmlContent)
    /\ TertiaryResult(htmlContent) = <<"Kindle", " ", "Store">>
    /\ bookInfo.genre = <<"Fiction">>

\* Neither breadcrumbs nor marker.
C28_WitnessDefault ==
    /\ BookReturned
    /\ Len(Crumbs(htmlContent)) = 0
    /\ ~TertiaryFound(htmlContent)
    /\ bookInfo.genre = <<"Fiction">>

Displayed(display) == display # "none"

NotesCreated == DOMAIN files \ {BookTemplatePath, BlogTemplatePath, ExistingNote}

\* C29: of the loading indicator and the button row exactly one is
\* displayed; while an invocation is in flight the button row is hidden, so
\* no Create click can start a second one; a dialog creates at most one note.
C29_ButtonsHiddenInFlight ==
    /\ Displayed(loadingDisplay) # Displayed(buttonDisplay)
    /\ pc \in {"fetch", "summary", "create"} => ~Displayed(buttonDisplay)
    /\ Cardinality(NotesCreated) <= 1

\* After a Create click that started or ended nothing, the invocation of
\* the second click is in flight with the button row hidden.
C29_Witness ==
    /\ clicks = 2
    /\ pc = "summary"
    /\ isOpen
    /\ Displayed(loadingDisplay)
    /\ ~Displayed(buttonDisplay)

\* The second Create click of a dialog created the note.
C29_WitnessNote ==
    /\ clicks = 2
    /\ pc = "done"
    /\ Cardinality(NotesCreated) = 1

\* No value of the record holds a dollar sign.
NoDollar(info) ==
    \A f \in DOMAIN info : \A i \in 1..Len(info[f]) : info[f][i] # "$"

HoldsToken(value, info) ==
    \E f \in {"title", "author", "genre", "summary"} :
        /\ Recognized(info, IF "amazonUrl" \in DOMAIN info THEN "book-creator"
                            ELSE "blog-creator", f)
        /\ CountOf(value, Token(IF "amazonUrl" \in DOMAIN info THEN "book-creator"
                                ELSE "blog-creator", f)) > 0

\* C30: the note is one simultaneous substitution over the template: text
\* inserted as a value is not scanned again, so a token spelled in a value
\* is in the note as it is in the value (values without dollar signs, whose
\* rendering C7 is about).
C30_ValuesAreNotScannedAgain ==
    (leaf # <<>> /\ NoDollar(bookInfo)) =>
        files[leaf] = Substituted(TemplateOf(modal), bookInfo)

\* A note was rendered from a record whose title spells the author token.
C30_TokenInTitle ==
    /\ leaf # <<>>
    /\ NoDollar(bookInfo)
    /\ HoldsToken(bookInfo.title, bookInfo)

=============================================================================
